---- MODULE Spec2Model ----
(***************************************************************************)
(* A model of the rewrite-cycle driver (optimizer/src/rewrite_cycle.rs)    *)
(* and of the eager join stream driver                                     *)
(* (physical-plan/src/joins/stream_join_utils.rs).                         *)
(***************************************************************************)
EXTENDS Integers, Sequences, FiniteSets, TLC

(***************************************************************************)
(* Bounds of the model.                                                    *)
(***************************************************************************)
\* largest value given to with_max_cycles
MaxCyclesArg == 4
\* largest number of rewrite calls issued by one closure invocation
MaxRewriters == 2
\* largest number of poll results the two input streams hold together
\* before they end
MaxStreamItems == 3
\* number of distinct hash values of the rows put into the pruning hash map
MaxHash == 2
\* largest number of rows ever inserted into the pruning hash map
MaxRows == 3
\* largest shrink factor handed to the pruning hash map
MaxShrinkFactor == 3
\* largest capacity handed to PruningJoinHashMap::with_capacity
MaxCapacityArg == 4
\* rows of the batch the owner of the pruning hash map buffers at once
MaxHashBatch == 28
\* largest value of a sort column of the join inputs
MaxValue == 2
\* largest distance the join filter allows between build and probe values
MaxSlack == 2
\* largest number of rows of a probe batch and of a build batch
MaxBatchRows == 2
\* largest number of rows pulled from the build side
MaxBuildRows == 3
\* largest number of (build, probe) index pairs a hash lookup hands over
MaxPairs == 2
\* largest number of rows of the probe batch the indices point into
MaxProbeCount == 3
\* largest build row index of an index pair
MaxBuildIndex == 1
\* largest number of build rows pruned at once
MaxPruneLength == 2
\* largest number of build rows pruned before
MaxDeletedOffset == 1
\* largest number of (sort expr, interval) pairs the window check is given
MaxIntervals == 2
\* largest bound of an interval the window check is given
MaxIntervalBound == 1
\* largest number of columns of a join filter
MaxFilterColumns == 2

(***************************************************************************)
(* Rewrite cycle: variables.                                               *)
(***************************************************************************)
VARIABLES
    rc_pc,          \* position of the caller / of each_cycle
    max_cycles,     \* RewriteCycle.max_cycles
    cycle_state,    \* the RewriteCycleState threaded through the closure
    input_node,     \* the node handed to each_cycle
    f,              \* the closure: the rewriters it calls rewrite on, in order
    pos,            \* index in f of the next rewrite call of this invocation
    fold_i,         \* element of 1..max_cycles the try_fold is at
    closure_calls,  \* number of invocations of the closure so far
    log,            \* one entry per rewrite call: its cycle and its outcome
    rc_result       \* what each_cycle returned

rc_vars == <<rc_pc, max_cycles, cycle_state, input_node, f, pos, fold_i,
             closure_calls, log, rc_result>>

(***************************************************************************)
(* Eager join stream: variables.                                           *)
(***************************************************************************)
VARIABLES
    state,            \* EagerJoinStreamState of the stream
    left_stream,      \* what the polls of the left input will return, in order
    right_stream,     \* what the polls of the right input will return, in order
    left_ended,       \* the left input has returned None
    right_ended,      \* the right input has returned None
    poll_result,      \* what the last poll_next_impl returned
    steps,            \* the passes of the loop made by the last poll_next_impl
    final_calls,      \* calls of process_batches_before_finalization so far
    polled_after_end, \* an input was polled after it had returned None
    hook_failed,      \* a processing hook has returned an error
    upstream_failed,  \* a poll has returned an error of an input
    last_side         \* the input the latest non-empty batch was pulled from

ej_vars == <<state, left_stream, right_stream, left_ended, right_ended,
             poll_result, steps, final_calls, polled_after_end, hook_failed,
             upstream_failed, last_side>>

(***************************************************************************)
(* Pruning hash map: variables.                                            *)
(***************************************************************************)
VARIABLES
    map,              \* PruningJoinHashMap.map: the (hash, tail) entries
    next,             \* PruningJoinHashMap.next: the chained list
    buckets,          \* number of buckets of the table behind map
    ctrl,             \* the buckets of the table: empty, deleted or full
    growth_left,      \* entries the table takes before it grows or rehashes
    initial_capacity, \* the capacity the map was constructed with
    deleted_offset,   \* rows pruned so far, kept by the owner of the map
    input_buffer,     \* hash values of the buffered rows, oldest first
    batch_rows,       \* rows that came into the map as one batch
    hm_result,        \* how the last call on the map ended
    hm_last           \* the last call on the map and its arguments

hm_vars == <<map, next, buckets, ctrl, growth_left, initial_capacity,
             deleted_offset, input_buffer, batch_rows, hm_result, hm_last>>

\* the state of the map while another component runs
HmIdle ==
    /\ map = {}
    /\ next = <<>>
    /\ buckets = 1
    /\ ctrl = [i \in {0} |-> [tag |-> "EMPTY", item |-> <<0, 0>>]]
    /\ growth_left = 0
    /\ initial_capacity = 0
    /\ deleted_offset = 0
    /\ input_buffer = <<>>
    /\ batch_rows = 0
    /\ hm_result = "none"
    /\ hm_last = [op |-> "none", prune_length |-> 0, deleting_offset |-> 0,
                  shrink_factor |-> 0, capacity |-> 0, requested |-> {}]

(***************************************************************************)
(* Sliding window: variables.                                              *)
(***************************************************************************)
VARIABLES
    join_filter,        \* the filter: build > probe - below, build < probe + above
    build_descending,   \* sort option of the build side's filter column
    probe_descending,   \* sort option of the probe side's filter column
    probe_batch,        \* the current probe batch: its filter column
    build_inner_buffer, \* the build rows pulled so far: their filter column
    intervals,          \* what calculate_the_necessary_build_side_range returned
    window_met,         \* what the last check of the window condition said
    met_at              \* rows of the build buffer when the check first said true

sw_vars == <<join_filter, build_descending, probe_descending, probe_batch,
             build_inner_buffer, intervals, window_met, met_at>>

\* the state of the sliding window while another component runs
SwIdle ==
    /\ join_filter = [has_below |-> TRUE, below |-> 1,
                      has_above |-> TRUE, above |-> 1]
    /\ build_descending = FALSE
    /\ probe_descending = FALSE
    /\ probe_batch = <<>>
    /\ build_inner_buffer = <<>>
    /\ intervals = [kind |-> "none", interval |-> <<>>]
    /\ window_met = "none"
    /\ met_at = 0

(***************************************************************************)
(* Index adjustment: variables.                                            *)
(***************************************************************************)
VARIABLES
    ix_call,    \* the function called on join indices and its arguments
    ix_result   \* what the call returned

ix_vars == <<ix_call, ix_result>>

\* no call on join indices while another component runs
IxIdle ==
    /\ ix_call = [op |-> "none"]
    /\ ix_result = [kind |-> "none"]

(***************************************************************************)
(* Filter expression intervals: variables.                                 *)
(***************************************************************************)
VARIABLES
    iv_call,    \* the function called on the sorted filter exprs, its arguments
    iv_result   \* what the call returned or left in the sorted filter exprs

iv_vars == <<iv_call, iv_result>>

\* no call on the sorted filter exprs while another component runs
IvIdle ==
    /\ iv_call = [op |-> "none"]
    /\ iv_result = [kind |-> "none"]

vars == <<rc_vars, ej_vars, hm_vars, sw_vars, ix_vars, iv_vars>>

(***************************************************************************)
(* Expression trees of the tests: literals and binary expressions.         *)
(***************************************************************************)
lit(v) == [k |-> "lit", v |-> v, op |-> "", l |-> <<>>, r |-> <<>>]
binary_expr(l, op, r) == [k |-> "bin", v |-> 0, op |-> op, l |-> l, r |-> r]

\* lit(6) + (lit(4) * (lit(2) + (lit(3) * lit(5))))
ConstExpr ==
    binary_expr(lit(6), "+",
        binary_expr(lit(4), "*",
            binary_expr(lit(2), "+", binary_expr(lit(3), "*", lit(5)))))

\* the nodes each_cycle is called with
Nodes == {lit(1), ConstExpr, binary_expr(lit(1), "+", binary_expr(lit(2), "+", lit(3)))}

\* the rewriters of the tests, and Stateful: a rewriter whose answer depends
\* on its own mutable state (rewrite takes &mut R)
RewriterKinds == {"Identity", "AlwaysTransformed", "Add", "Mul", "Stateful"}

Apply(op, a, b) == IF op = "+" THEN a + b ELSE a * b

\* ConstBinaryExprRewriter::f_up
ConstBinaryExprRewriter_f_up(n, op) ==
    IF n.k = "bin" /\ n.op = op /\ n.l.k = "lit" /\ n.r.k = "lit"
    THEN [data |-> lit(Apply(op, n.l.v, n.r.v)), transformed |-> TRUE]
    ELSE [data |-> n, transformed |-> FALSE]

\* TreeNode::rewrite with a ConstBinaryExprRewriter: children first, then f_up
RECURSIVE TreeNode_rewrite(_, _)
TreeNode_rewrite(n, op) ==
    IF n.k = "lit"
    THEN ConstBinaryExprRewriter_f_up(n, op)
    ELSE LET lres == TreeNode_rewrite(n.l, op)
             rres == TreeNode_rewrite(n.r, op)
             up   == ConstBinaryExprRewriter_f_up(
                         [n EXCEPT !.l = lres.data, !.r = rres.data], op)
         IN  [data |-> up.data,
              transformed |-> lres.transformed \/ rres.transformed \/ up.transformed]

Ok(res) == [err |-> FALSE, data |-> res.data, transformed |-> res.transformed]

\* the results node.rewrite(rewriter) can give
RewriteResults(kind, n) ==
    CASE kind = "Identity" -> {Ok([data |-> n, transformed |-> FALSE])}
      [] kind = "AlwaysTransformed" -> {Ok([data |-> n, transformed |-> TRUE])}
      [] kind = "Add" -> {Ok(TreeNode_rewrite(n, "+"))}
      [] kind = "Mul" -> {Ok(TreeNode_rewrite(n, "*"))}
      [] kind = "Stateful" ->
            {Ok([data |-> n, transformed |-> FALSE]),
             Ok([data |-> n, transformed |-> TRUE]),
             [err |-> TRUE, data |-> n, transformed |-> FALSE]}

(***************************************************************************)
(* RewriteCycle and RewriteCycleState.                                     *)
(***************************************************************************)
DEFAULT_MAX_CYCLES == 3

\* Option<usize>::None of cycle_length
None == -1

RewriteCycleState_new(n) ==
    [node |-> n, cycle_length |-> None,
     consecutive_unchanged_count |-> 0, rewrite_count |-> 0]

\* mutant: the cycle length recorded one too long
record_cycle_length_PlusOne(s) == [s EXCEPT !.cycle_length = s.rewrite_count + 1]

record_cycle_length(s) == [s EXCEPT !.cycle_length = s.rewrite_count]

\* mutant: an unset cycle_length is not told apart from a length
is_done_IgnoresUnset(s) == s.consecutive_unchanged_count >= s.cycle_length

is_done(s) ==
    IF s.cycle_length = None
    THEN FALSE
    ELSE s.consecutive_unchanged_count >= s.cycle_length

finish(s) ==
    [kind |-> "Ok",
     node |-> s.node,
     info |-> [cycle_length |-> IF s.cycle_length = None
                                THEN s.rewrite_count ELSE s.cycle_length,
               total_iterations |-> s.rewrite_count]]

ErrResult == [kind |-> "Err", node |-> lit(0),
              info |-> [cycle_length |-> 0, total_iterations |-> 0]]

NoResult == [kind |-> "Running", node |-> lit(0),
             info |-> [cycle_length |-> 0, total_iterations |-> 0]]

\* mutant: rewrite never breaks on a fixpoint, only on an error
rewrite_NeverBreaks(s, res) ==
    IF res.err
    THEN [flow |-> "Break", err |-> TRUE, state |-> s]
    ELSE [flow |-> "Continue", err |-> FALSE,
          state |-> [s EXCEPT
                      !.node = res.data,
                      !.rewrite_count = @ + 1,
                      !.consecutive_unchanged_count =
                          IF res.transformed THEN 0 ELSE @ + 1]]

\* mutant: a change does not reset consecutive_unchanged_count
rewrite_NoReset(s, res) ==
    IF res.err
    THEN [flow |-> "Break", err |-> TRUE, state |-> s]
    ELSE LET s1 == [s EXCEPT
                      !.node = res.data,
                      !.rewrite_count = @ + 1,
                      !.consecutive_unchanged_count = @ + 1]
         IN  [flow |-> IF is_done(s1) THEN "Break" ELSE "Continue",
              err |-> FALSE, state |-> s1]

\* mutant: an error of the rewriter is dropped and the cycle goes on
rewrite_SwallowsErr(s, res) ==
    IF res.err
    THEN [flow |-> "Continue", err |-> FALSE, state |-> s]
    ELSE LET s1 == [s EXCEPT
                      !.node = res.data,
                      !.rewrite_count = @ + 1,
                      !.consecutive_unchanged_count =
                          IF res.transformed THEN 0 ELSE @ + 1]
         IN  [flow |-> IF is_done(s1) THEN "Break" ELSE "Continue",
              err |-> FALSE, state |-> s1]

\* RewriteCycleState::rewrite on the result res of node.rewrite(rewriter)
rewrite(s, res) ==
    IF res.err
    THEN [flow |-> "Break", err |-> TRUE, state |-> s]
    ELSE LET s1 == [s EXCEPT
                      !.node = res.data,
                      !.rewrite_count = @ + 1,
                      !.consecutive_unchanged_count =
                          IF res.transformed THEN 0 ELSE @ + 1]
         IN  [flow |-> IF is_done(s1) THEN "Break" ELSE "Continue",
              err |-> FALSE, state |-> s1]

\* RewriteCycleInfo::completed_cycles: an integer division, which panics
\* when the divisor is zero
completed_cycles(info) ==
    IF info.cycle_length = 0
    THEN [panic |-> TRUE, value |-> 0]
    ELSE [panic |-> FALSE, value |-> info.total_iterations \div info.cycle_length]

total_iterations(info) == info.total_iterations

(***************************************************************************)
(* Rewrite cycle: actions.                                                 *)
(***************************************************************************)
\* RewriteCycle::new()
RcInit ==
    /\ rc_pc = "new"
    /\ max_cycles = DEFAULT_MAX_CYCLES
    /\ cycle_state = RewriteCycleState_new(lit(0))
    /\ input_node = lit(0)
    /\ f = <<>>
    /\ pos = 0
    /\ fold_i = 0
    /\ closure_calls = 0
    /\ log = <<>>
    /\ rc_result = NoResult

\* RewriteCycle::with_max_cycles
with_max_cycles(n) ==
    /\ rc_pc = "new"
    /\ rc_pc' = "built"
    /\ max_cycles' = n
    /\ UNCHANGED <<cycle_state, input_node, f, pos, fold_i, closure_calls,
                   log, rc_result>>

\* mutant: each_cycle without the test of max_cycles = 0
each_cycle_NoZeroCheck(n, closure) ==
    /\ rc_pc \in {"new", "built"}
    /\ input_node' = n
    /\ f' = closure
    /\ cycle_state' = RewriteCycleState_new(n)
    /\ rc_pc' = "first_cycle"
    /\ closure_calls' = closure_calls + 1
    /\ pos' = 1
    /\ UNCHANGED <<rc_result, max_cycles, fold_i, log>>

\* each_cycle up to the first invocation of the closure
each_cycle(n, closure) ==
    /\ rc_pc \in {"new", "built"}
    /\ input_node' = n
    /\ f' = closure
    /\ cycle_state' = RewriteCycleState_new(n)
    /\ IF max_cycles = 0
       THEN /\ rc_result' = finish(RewriteCycleState_new(n))
            /\ rc_pc' = "returned"
            /\ UNCHANGED <<closure_calls, pos>>
       ELSE /\ rc_pc' = "first_cycle"
            /\ closure_calls' = closure_calls + 1
            /\ pos' = 1
            /\ UNCHANGED rc_result
    /\ UNCHANGED <<max_cycles, fold_i, log>>

\* one rewrite call of the closure; a Break leaves the closure through `?`
\* and each_cycle returns on it
RewriteCall ==
    /\ rc_pc \in {"first_cycle", "remaining_cycles"}
    /\ pos <= Len(f)
    /\ \E res \in RewriteResults(f[pos], cycle_state.node) :
          LET cf == rewrite(cycle_state, res) IN
          /\ cycle_state' = cf.state
          /\ log' = Append(log, [cycle |-> closure_calls,
                                 out |-> IF res.err THEN "err"
                                         ELSE IF res.transformed THEN "yes"
                                         ELSE "no"])
          /\ IF cf.flow = "Break"
             THEN /\ rc_pc' = "returned"
                  /\ rc_result' = IF cf.err THEN ErrResult ELSE finish(cf.state)
                  /\ UNCHANGED pos
             ELSE /\ pos' = pos + 1
                  /\ UNCHANGED <<rc_pc, rc_result>>
    /\ UNCHANGED <<max_cycles, input_node, f, fold_i, closure_calls>>

\* mutant: the fold runs over 1..=max_cycles
TryFoldNext_Inclusive(s, i) ==
    IF i <= max_cycles
    THEN /\ rc_pc' = "remaining_cycles"
         /\ fold_i' = i
         /\ closure_calls' = closure_calls + 1
         /\ pos' = 1
         /\ UNCHANGED rc_result
    ELSE /\ rc_pc' = "returned"
         /\ rc_result' = finish(s)
         /\ UNCHANGED <<fold_i, closure_calls, pos>>

\* the next step of (1..max_cycles).try_fold from state s at index i
TryFoldNext(s, i) ==
    IF i < max_cycles
    THEN /\ rc_pc' = "remaining_cycles"
         /\ fold_i' = i
         /\ closure_calls' = closure_calls + 1
         /\ pos' = 1
         /\ UNCHANGED rc_result
    ELSE /\ rc_pc' = "returned"
         /\ rc_result' = finish(s)
         /\ UNCHANGED <<fold_i, closure_calls, pos>>

\* the first invocation of the closure returns Continue
FirstCycleReturns ==
    /\ rc_pc = "first_cycle"
    /\ pos > Len(f)
    /\ LET s == record_cycle_length(cycle_state) IN
       /\ cycle_state' = s
       /\ IF is_done(s)
          THEN /\ rc_pc' = "returned"
               /\ rc_result' = finish(s)
               /\ UNCHANGED <<fold_i, closure_calls, pos>>
          ELSE TryFoldNext(s, 1)
    /\ UNCHANGED <<max_cycles, input_node, f, log>>

\* a later invocation of the closure returns Continue
LaterCycleReturns ==
    /\ rc_pc = "remaining_cycles"
    /\ pos > Len(f)
    /\ TryFoldNext(cycle_state, fold_i + 1)
    /\ UNCHANGED <<max_cycles, cycle_state, input_node, f, log>>

RECURSIVE SeqsUpTo(_, _)
SeqsUpTo(S, n) ==
    IF n = 0 THEN {<<>>}
    ELSE LET shorter == SeqsUpTo(S, n - 1)
         IN  shorter \cup {Append(q, x) : q \in {t \in shorter : Len(t) = n - 1}, x \in S}

Closures == SeqsUpTo(RewriterKinds, MaxRewriters)

(***************************************************************************)
(* Eager join stream: EagerJoinStreamState, the inputs, the hooks.         *)
(***************************************************************************)
PullRight == [tag |-> "PullRight", final_result |-> FALSE]
PullLeft == [tag |-> "PullLeft", final_result |-> FALSE]
RightExhausted == [tag |-> "RightExhausted", final_result |-> FALSE]
LeftExhausted == [tag |-> "LeftExhausted", final_result |-> FALSE]
BothExhausted(final_result) == [tag |-> "BothExhausted", final_result |-> final_result]

\* what a poll of an input returns while it has not ended: Poll::Pending, a
\* batch with rows, a batch without rows, or an error; an input that has
\* nothing left returns None
StreamItems == {"Pending", "Batch", "Empty", "Err"}

\* what a processing hook returns: Ok(Continue), Ok(Ready(Some(batch))),
\* Ok(Ready(None)) or Err
HookResults == {"Continue", "ReadySome", "ReadyNone", "Err"}

\* the stream object as the default methods of the trait see it; steps
\* holds the passes of the loop made so far by the poll in progress
Self ==
    [state |-> state,
     left_stream |-> left_stream, right_stream |-> right_stream,
     left_ended |-> left_ended, right_ended |-> right_ended,
     final_calls |-> final_calls, polled_after_end |-> polled_after_end,
     hook_failed |-> hook_failed, upstream_failed |-> upstream_failed]

set_state(self, st) == [self EXCEPT !.state = st]

\* self.left_stream().next()
left_stream_next(self) ==
    IF self.left_stream = <<>>
    THEN [item |-> "None",
          self |-> [self EXCEPT !.polled_after_end = @ \/ self.left_ended,
                                !.left_ended = TRUE]]
    ELSE [item |-> Head(self.left_stream),
          self |-> [self EXCEPT !.left_stream = Tail(@)]]

\* self.right_stream().next()
right_stream_next(self) ==
    IF self.right_stream = <<>>
    THEN [item |-> "None",
          self |-> [self EXCEPT !.polled_after_end = @ \/ self.right_ended,
                                !.right_ended = TRUE]]
    ELSE [item |-> Head(self.right_stream),
          self |-> [self EXCEPT !.right_stream = Tail(@)]]

\* The hooks are the required methods of the trait: h is the result the
\* implementation returns from this call.
call_hook(self, hook, h) ==
    [self |-> [self EXCEPT
                 !.hook_failed = @ \/ h = "Err",
                 !.final_calls =
                     IF hook = "process_batches_before_finalization"
                     THEN @ + 1 ELSE @],
     res |-> h, hook |-> hook]

process_batch_from_right(self, h) ==
    call_hook(self, "process_batch_from_right", h)
process_batch_from_left(self, h) ==
    call_hook(self, "process_batch_from_left", h)
process_batch_after_left_end(self, h) ==
    call_hook(self, "process_batch_after_left_end", h)
process_batch_after_right_end(self, h) ==
    call_hook(self, "process_batch_after_right_end", h)
process_batches_before_finalization(self, h) ==
    call_hook(self, "process_batches_before_finalization", h)

\* the outcome of one state function: the result it hands to handle_state
\* ("Pending" when its future is not ready), the input it pulled from, the
\* item pulled and the hook called
Outcome(self, res, pulled, item, hook) ==
    [self |-> self, res |-> res, pulled |-> pulled, item |-> item, hook |-> hook]

UpstreamErr(self, pulled) ==
    Outcome([self EXCEPT !.upstream_failed = TRUE], "Err", pulled, "Err", "none")

(***************************************************************************)
(* Eager join stream: the default methods of the trait.                    *)
(***************************************************************************)
\* mutant: a batch of the right input leaves the state at PullRight
fetch_next_from_right_stream_KeepsSide(self, h) ==
    LET p == right_stream_next(self) IN
    CASE p.item = "Pending" -> Outcome(p.self, "Pending", "right", p.item, "none")
      [] p.item = "Empty" -> Outcome(p.self, "Continue", "right", p.item, "none")
      [] p.item = "Batch" ->
            LET r == process_batch_from_right(p.self, h)
            IN  Outcome(r.self, r.res, "right", p.item, r.hook)
      [] p.item = "Err" -> UpstreamErr(p.self, "right")
      [] p.item = "None" ->
            Outcome(set_state(p.self, RightExhausted), "Continue", "right",
                    p.item, "none")

\* mutant: an error of the right input moves the state on to PullLeft
fetch_next_from_right_stream_ErrFlips(self, h) ==
    LET p == right_stream_next(self) IN
    CASE p.item = "Pending" -> Outcome(p.self, "Pending", "right", p.item, "none")
      [] p.item = "Empty" -> Outcome(p.self, "Continue", "right", p.item, "none")
      [] p.item = "Batch" ->
            LET r == process_batch_from_right(set_state(p.self, PullLeft), h)
            IN  Outcome(r.self, r.res, "right", p.item, r.hook)
      [] p.item = "Err" -> UpstreamErr(set_state(p.self, PullLeft), "right")
      [] p.item = "None" ->
            Outcome(set_state(p.self, RightExhausted), "Continue", "right",
                    p.item, "none")

fetch_next_from_right_stream(self, h) ==
    LET p == right_stream_next(self) IN
    CASE p.item = "Pending" -> Outcome(p.self, "Pending", "right", p.item, "none")
      [] p.item = "Empty" -> Outcome(p.self, "Continue", "right", p.item, "none")
      [] p.item = "Batch" ->
            LET r == process_batch_from_right(set_state(p.self, PullLeft), h)
            IN  Outcome(r.self, r.res, "right", p.item, r.hook)
      [] p.item = "Err" -> UpstreamErr(p.self, "right")
      [] p.item = "None" ->
            Outcome(set_state(p.self, RightExhausted), "Continue", "right",
                    p.item, "none")

\* mutant: a batch without rows of the left input switches the side
fetch_next_from_left_stream_EmptyFlips(self, h) ==
    LET p == left_stream_next(self) IN
    CASE p.item = "Pending" -> Outcome(p.self, "Pending", "left", p.item, "none")
      [] p.item = "Empty" ->
            Outcome(set_state(p.self, PullRight), "Continue", "left", p.item,
                    "none")
      [] p.item = "Batch" ->
            LET r == process_batch_from_left(set_state(p.self, PullRight), h)
            IN  Outcome(r.self, r.res, "left", p.item, r.hook)
      [] p.item = "Err" -> UpstreamErr(p.self, "left")
      [] p.item = "None" ->
            Outcome(set_state(p.self, LeftExhausted), "Continue", "left",
                    p.item, "none")

fetch_next_from_left_stream(self, h) ==
    LET p == left_stream_next(self) IN
    CASE p.item = "Pending" -> Outcome(p.self, "Pending", "left", p.item, "none")
      [] p.item = "Empty" -> Outcome(p.self, "Continue", "left", p.item, "none")
      [] p.item = "Batch" ->
            LET r == process_batch_from_left(set_state(p.self, PullRight), h)
            IN  Outcome(r.self, r.res, "left", p.item, r.hook)
      [] p.item = "Err" -> UpstreamErr(p.self, "left")
      [] p.item = "None" ->
            Outcome(set_state(p.self, LeftExhausted), "Continue", "left",
                    p.item, "none")

\* mutant: when the left input ends too, the output is ended at once
handle_right_stream_end_EndsOutput(self, h) ==
    LET p == left_stream_next(self) IN
    CASE p.item = "Pending" -> Outcome(p.self, "Pending", "left", p.item, "none")
      [] p.item = "Empty" -> Outcome(p.self, "Continue", "left", p.item, "none")
      [] p.item = "Batch" ->
            LET r == process_batch_after_right_end(p.self, h)
            IN  Outcome(r.self, r.res, "left", p.item, r.hook)
      [] p.item = "Err" -> UpstreamErr(p.self, "left")
      [] p.item = "None" -> Outcome(p.self, "ReadyNone", "left", p.item, "none")

handle_right_stream_end(self, h) ==
    LET p == left_stream_next(self) IN
    CASE p.item = "Pending" -> Outcome(p.self, "Pending", "left", p.item, "none")
      [] p.item = "Empty" -> Outcome(p.self, "Continue", "left", p.item, "none")
      [] p.item = "Batch" ->
            LET r == process_batch_after_right_end(p.self, h)
            IN  Outcome(r.self, r.res, "left", p.item, r.hook)
      [] p.item = "Err" -> UpstreamErr(p.self, "left")
      [] p.item = "None" ->
            Outcome(set_state(p.self, BothExhausted(FALSE)), "Continue", "left",
                    p.item, "none")

\* mutant: after the left input has ended it is the one polled
handle_left_stream_end_PollsLeft(self, h) ==
    LET p == left_stream_next(self) IN
    CASE p.item = "Pending" -> Outcome(p.self, "Pending", "left", p.item, "none")
      [] p.item = "Empty" -> Outcome(p.self, "Continue", "left", p.item, "none")
      [] p.item = "Batch" ->
            LET r == process_batch_after_left_end(p.self, h)
            IN  Outcome(r.self, r.res, "left", p.item, r.hook)
      [] p.item = "Err" -> UpstreamErr(p.self, "left")
      [] p.item = "None" ->
            Outcome(set_state(p.self, BothExhausted(FALSE)), "Continue", "left",
                    p.item, "none")

handle_left_stream_end(self, h) ==
    LET p == right_stream_next(self) IN
    CASE p.item = "Pending" -> Outcome(p.self, "Pending", "right", p.item, "none")
      [] p.item = "Empty" -> Outcome(p.self, "Continue", "right", p.item, "none")
      [] p.item = "Batch" ->
            LET r == process_batch_after_left_end(p.self, h)
            IN  Outcome(r.self, r.res, "right", p.item, r.hook)
      [] p.item = "Err" -> UpstreamErr(p.self, "right")
      [] p.item = "None" ->
            Outcome(set_state(p.self, BothExhausted(FALSE)), "Continue", "right",
                    p.item, "none")

\* mutant: the state is set only once the final pass has not failed
prepare_for_final_results_after_exhaustion_SetsStateLate(self, h) ==
    LET r == process_batches_before_finalization(self, h)
    IN  Outcome(IF r.res = "Err" THEN r.self
                ELSE set_state(r.self, BothExhausted(TRUE)),
                r.res, "none", "none", r.hook)

prepare_for_final_results_after_exhaustion(self, h) ==
    LET r == process_batches_before_finalization(
                 set_state(self, BothExhausted(TRUE)), h)
    IN  Outcome(r.self, r.res, "none", "none", r.hook)

\* mutant: Continue is handed back to the caller as Pending
handle_state_ContinueReturns(res) ==
    CASE res = "Continue" -> "Pending"
      [] res = "ReadySome" -> "Some(Ok)"
      [] res = "ReadyNone" -> "None"
      [] res = "Err" -> "Some(Err)"

\* handle_state!: Continue goes round the loop, anything else is returned
handle_state(res) ==
    CASE res = "Continue" -> "continue"
      [] res = "ReadySome" -> "Some(Ok)"
      [] res = "ReadyNone" -> "None"
      [] res = "Err" -> "Some(Err)"

\* mutant: a future that is not ready makes the loop go on
handle_async_state_SkipsPending(res) ==
    IF res = "Pending" THEN "continue" ELSE handle_state(res)

\* handle_async_state!: ready! returns Poll::Pending when the future is not ready
handle_async_state(res) ==
    IF res = "Pending" THEN "Pending" ELSE handle_state(res)

\* one pass of the loop of poll_next_impl: the state function that is run
\* and what the macro makes of its result ("continue": the loop goes on)
poll_next_impl(self, h) ==
    CASE self.state = PullRight ->
            LET o == fetch_next_from_right_stream(self, h)
            IN  [o |-> o, ret |-> handle_async_state(o.res)]
      [] self.state = PullLeft ->
            LET o == fetch_next_from_left_stream(self, h)
            IN  [o |-> o, ret |-> handle_async_state(o.res)]
      [] self.state = RightExhausted ->
            LET o == handle_right_stream_end(self, h)
            IN  [o |-> o, ret |-> handle_async_state(o.res)]
      [] self.state = LeftExhausted ->
            LET o == handle_left_stream_end(self, h)
            IN  [o |-> o, ret |-> handle_async_state(o.res)]
      [] self.state = BothExhausted(FALSE) ->
            LET o == prepare_for_final_results_after_exhaustion(self, h)
            IN  [o |-> o, ret |-> handle_state(o.res)]
      [] self.state = BothExhausted(TRUE) ->
            [o |-> Outcome(self, "ReadyNone", "none", "none", "none"),
             ret |-> "None"]

(***************************************************************************)
(* Eager join stream: actions.                                             *)
(***************************************************************************)
\* the pairs of input streams holding at most n poll results together
StreamPairs(n) ==
    {pr \in SeqsUpTo(StreamItems, n) \X SeqsUpTo(StreamItems, n) :
        Len(pr[1]) + Len(pr[2]) <= n}

\* a stream that was not polled yet, over two inputs
EjInit ==
    /\ state \in {PullRight, PullLeft}
    /\ \E pr \in StreamPairs(MaxStreamItems) :
          /\ left_stream = pr[1]
          /\ right_stream = pr[2]
    /\ left_ended = FALSE
    /\ right_ended = FALSE
    /\ poll_result = "NotPolled"
    /\ steps = <<>>
    /\ final_calls = 0
    /\ polled_after_end = FALSE
    /\ hook_failed = FALSE
    /\ upstream_failed = FALSE
    /\ last_side = "none"

\* the state of the stream while the rewrite cycle runs
EjIdle ==
    /\ state = PullRight
    /\ left_stream = <<>>
    /\ right_stream = <<>>
    /\ left_ended = FALSE
    /\ right_ended = FALSE
    /\ poll_result = "NotPolled"
    /\ steps = <<>>
    /\ final_calls = 0
    /\ polled_after_end = FALSE
    /\ hook_failed = FALSE
    /\ upstream_failed = FALSE
    /\ last_side = "none"

\* one pass of the loop, after the passes before of the same poll
LoopPass(before) ==
    \E h \in HookResults :
        LET p == poll_next_impl(Self, h) IN
        /\ state' = p.o.self.state
        /\ left_stream' = p.o.self.left_stream
        /\ right_stream' = p.o.self.right_stream
        /\ left_ended' = p.o.self.left_ended
        /\ right_ended' = p.o.self.right_ended
        /\ final_calls' = p.o.self.final_calls
        /\ polled_after_end' = p.o.self.polled_after_end
        /\ hook_failed' = p.o.self.hook_failed
        /\ upstream_failed' = p.o.self.upstream_failed
        /\ last_side' = IF p.o.item = "Batch" THEN p.o.pulled ELSE last_side
        /\ poll_result' = IF p.ret = "continue" THEN "Running" ELSE p.ret
        /\ steps' = Append(before, [state |-> state,
                                    pulled |-> p.o.pulled,
                                    item |-> p.o.item,
                                    hook |-> p.o.hook,
                                    res |-> p.o.res,
                                    next_state |-> p.o.self.state])

\* the consumer calls poll_next_impl: the first pass of its loop
Poll ==
    /\ poll_result # "Running"
    /\ LoopPass(<<>>)

\* a state function returned Continue: the next pass of the loop, in the
\* same call of poll_next_impl
Continue ==
    /\ poll_result = "Running"
    /\ LoopPass(steps)

EjNext ==
    \/ Poll /\ UNCHANGED <<rc_vars, hm_vars, sw_vars, ix_vars, iv_vars>>
    \/ Continue /\ UNCHANGED <<rc_vars, hm_vars, sw_vars, ix_vars, iv_vars>>

EagerInit == EjInit /\ RcInit /\ HmIdle /\ SwIdle /\ IxIdle /\ IvIdle

\* the loop runs on, and the consumer polls the stream again as long as a
\* poll changes anything
EagerSpec == EagerInit /\ [][EjNext]_vars /\ WF_vars(EjNext)

(***************************************************************************)
(* Eager join stream: properties.                                          *)
(***************************************************************************)
NoErrIn(stream) == \A i \in DOMAIN stream : stream[i] # "Err"

\* the input a state awaits
Awaited(st) ==
    CASE st = PullRight -> "right"
      [] st = PullLeft -> "left"
      [] st = RightExhausted -> "left"
      [] st = LeftExhausted -> "right"
      [] OTHER -> "none"

\* the last poll returned an error that an input had yielded
ReturnedUpstreamErr ==
    /\ poll_result = "Some(Err)"
    /\ steps # <<>>
    /\ steps[Len(steps)].item = "Err"

\* C9: if the inputs yield no error and no hook fails, repeated polling
\* reaches BothExhausted{final_result: true} from PullLeft and from
\* PullRight; from then on every poll returns None, pulls from no input and
\* leaves the state alone.
C9_ConvergesToBothExhausted ==
    /\ (NoErrIn(left_stream) /\ NoErrIn(right_stream))
          => <>(hook_failed \/ state = BothExhausted(TRUE))
    /\ [][state = BothExhausted(TRUE) =>
            /\ state' = BothExhausted(TRUE)
            /\ poll_result' = "None"
            /\ steps'[Len(steps')].pulled = "none"
            /\ UNCHANGED <<left_stream, right_stream, polled_after_end,
                           final_calls>>]_vars

C9_Witness ==
    /\ state = BothExhausted(TRUE)
    /\ ~hook_failed
    /\ ~upstream_failed
    /\ left_ended
    /\ right_ended
    /\ poll_result = "None"
    /\ steps = <<[state |-> BothExhausted(TRUE), pulled |-> "none",
                  item |-> "none", hook |-> "none", res |-> "ReadyNone",
                  next_state |-> BothExhausted(TRUE)]>>

\* C10: when an input yields an error the poll that pulled it returns that
\* error, and the driver has terminated with it: no later poll pulls another
\* batch from either input or emits an output batch.
C10_ErrorTerminatesDriver ==
    /\ [](\A i \in DOMAIN steps :
            steps[i].item = "Err" =>
                /\ i = Len(steps)
                /\ poll_result = "Some(Err)")
    /\ [][upstream_failed =>
            /\ steps'[Len(steps')].item # "Batch"
            /\ poll_result' # "Some(Ok)"]_vars

\* the pass of the loop a step has just made
LastPass(passes) == passes[Len(passes)]

\* C11: while neither input has ended the stream alternates sides: a
\* non-empty batch pulled in PullLeft is handed to process_batch_from_left
\* with the state already PullRight, one pulled in PullRight is handed to
\* process_batch_from_right with the state already PullLeft; the hook runs in
\* the pass that pulled the batch, and the batch consumed before it came
\* from the other input.
C11_AlternatesSides ==
    [][(/\ steps' # <<>>
        /\ LastPass(steps').state \in {PullLeft, PullRight}
        /\ LastPass(steps').item = "Batch") =>
          /\ ~left_ended
          /\ ~right_ended
          /\ LastPass(steps').state = PullLeft =>
                /\ LastPass(steps').pulled = "left"
                /\ LastPass(steps').hook = "process_batch_from_left"
                /\ LastPass(steps').next_state = PullRight
          /\ LastPass(steps').state = PullRight =>
                /\ LastPass(steps').pulled = "right"
                /\ LastPass(steps').hook = "process_batch_from_right"
                /\ LastPass(steps').next_state = PullLeft
          /\ last_side # LastPass(steps').pulled
          /\ state' = LastPass(steps').next_state]_vars

C11_Witness ==
    /\ Len(steps) = 3
    /\ steps[1].state = PullLeft
    /\ steps[1].item = "Batch"
    /\ steps[2].state = PullRight
    /\ steps[2].item = "Batch"
    /\ steps[3].state = PullLeft
    /\ steps[3].item = "Batch"
    /\ last_side = "left"
    /\ state = PullRight

\* C12: an input that has returned None is not polled again: in
\* RightExhausted only the left input is polled, its non-empty batches go to
\* process_batch_after_right_end and leave the state alone, and its end makes
\* the state BothExhausted{final_result: false}; LeftExhausted is the mirror
\* image.
C12_NoPollAfterEnd ==
    /\ ~polled_after_end
    /\ right_ended => state.tag \in {"RightExhausted", "BothExhausted"}
    /\ left_ended => state.tag \in {"LeftExhausted", "BothExhausted"}
    /\ \A i \in DOMAIN steps :
          /\ steps[i].state = RightExhausted =>
                /\ steps[i].pulled = "left"
                /\ steps[i].item = "Batch" =>
                      /\ steps[i].hook = "process_batch_after_right_end"
                      /\ steps[i].next_state = RightExhausted
                /\ steps[i].item = "None" =>
                      steps[i].next_state = BothExhausted(FALSE)
          /\ steps[i].state = LeftExhausted =>
                /\ steps[i].pulled = "right"
                /\ steps[i].item = "Batch" =>
                      /\ steps[i].hook = "process_batch_after_left_end"
                      /\ steps[i].next_state = LeftExhausted
                /\ steps[i].item = "None" =>
                      steps[i].next_state = BothExhausted(FALSE)

C12_Witness ==
    /\ Len(steps) = 3
    /\ steps[1].item = "None"
    /\ steps[1].next_state = LeftExhausted
    /\ steps[2].state = LeftExhausted
    /\ steps[2].item = "Batch"
    /\ steps[3].state = LeftExhausted
    /\ steps[3].item = "None"
    /\ state = BothExhausted(FALSE)
    /\ left_ended
    /\ right_ended

\* C13: process_batches_before_finalization is called only in
\* BothExhausted{final_result: false}, with the state already
\* BothExhausted{final_result: true}; it is called at most once, also when it
\* fails, and once both inputs have ended it is called.
C13_FinalPassOnce ==
    /\ [](final_calls <= 1)
    /\ [](final_calls = 1 <=> state = BothExhausted(TRUE))
    /\ [](\A i \in DOMAIN steps :
            /\ steps[i].hook = "process_batches_before_finalization" =>
                  /\ steps[i].state = BothExhausted(FALSE)
                  /\ steps[i].next_state = BothExhausted(TRUE)
            /\ steps[i].state = BothExhausted(FALSE) =>
                  steps[i].hook = "process_batches_before_finalization")
    /\ (left_ended /\ right_ended) ~> (final_calls = 1)

\* the final pass failed, and a later poll did not run it again
C13_Witness ==
    /\ final_calls = 1
    /\ hook_failed
    /\ left_ended
    /\ right_ended
    /\ poll_result = "None"
    /\ Len(steps) = 1
    /\ steps[1].state = BothExhausted(TRUE)
    /\ last_side = "none"

\* the poll results the input named side will still return
StreamOf(side, l, r) == IF side = "left" THEN l ELSE r
Other(side) == IF side = "left" THEN "right" ELSE "left"

\* the input the state awaits is pending at its next poll
AwaitedIsPending ==
    /\ Awaited(state) # "none"
    /\ StreamOf(Awaited(state), left_stream, right_stream) # <<>>
    /\ Head(StreamOf(Awaited(state), left_stream, right_stream)) = "Pending"

\* the other input would return a non-empty batch at its next poll
OtherHasBatch ==
    /\ StreamOf(Other(Awaited(state)), left_stream, right_stream) # <<>>
    /\ Head(StreamOf(Other(Awaited(state)), left_stream, right_stream)) = "Batch"

\* C14 as claimed: when the awaited input is pending and the other input has
\* a batch ready, the poll consumes that batch and does not return Pending.
C14_PullsWhicheverUnblocks ==
    [][(AwaitedIsPending /\ OtherHasBatch) =>
          /\ poll_result' # "Pending"
          /\ StreamOf(Other(Awaited(state)), left_stream', right_stream')
                # StreamOf(Other(Awaited(state)), left_stream, right_stream)]_vars

\* C14 as amended: a pass of the loop polls only the input its state awaits;
\* when that input is pending the poll returns Pending, whatever the other
\* input holds: the other input is not polled, no hook is called and the
\* state stays.
C14_AwaitsOnlyItsInput ==
    [][/\ steps' # <<>>
       /\ LastPass(steps').pulled = Awaited(state)
       /\ Awaited(state) # "none" =>
             StreamOf(Other(Awaited(state)), left_stream', right_stream')
                = StreamOf(Other(Awaited(state)), left_stream, right_stream)
       /\ AwaitedIsPending =>
             /\ poll_result' = "Pending"
             /\ LastPass(steps').hook = "none"
             /\ state' = state
             /\ last_side' = last_side]_vars

C14_Witness ==
    /\ poll_result = "Pending"
    /\ state = PullLeft
    /\ steps # <<>>
    /\ LastPass(steps).pulled = "left"
    /\ LastPass(steps).item = "Pending"
    /\ right_stream # <<>>
    /\ Head(right_stream) = "Batch"
    /\ ~right_ended

\* what the next poll of the input the state awaits returns
NextOfAwaited ==
    IF Awaited(state) = "none" THEN "none"
    ELSE IF StreamOf(Awaited(state), left_stream, right_stream) = <<>>
    THEN "None"
    ELSE Head(StreamOf(Awaited(state), left_stream, right_stream))

\* C34: when the input pulled in PullLeft, PullRight, LeftExhausted or
\* RightExhausted yields an error, the poll returns the error at once; the
\* state stays the one the error was pulled in and no hook is called.
C34_ErrorLeavesState ==
    [][NextOfAwaited = "Err" =>
          /\ state.tag \in {"PullLeft", "PullRight", "LeftExhausted",
                            "RightExhausted"}
          /\ poll_result' = "Some(Err)"
          /\ LastPass(steps').item = "Err"
          /\ LastPass(steps').hook = "none"
          /\ state' = state
          /\ UNCHANGED <<final_calls, hook_failed, last_side, left_ended,
                         right_ended>>]_vars

\* the right input failed after the left input had ended
C34_Witness ==
    /\ ReturnedUpstreamErr
    /\ state = LeftExhausted
    /\ LastPass(steps).state = LeftExhausted
    /\ LastPass(steps).pulled = "right"
    /\ left_ended
    /\ ~hook_failed

\* C35: a poll suspends only at the pull of an input: it returns Pending
\* exactly when the input its state awaits is pending, and then the state
\* stays and no hook is called; a result Continue is never returned to the
\* caller: the loop goes round again in the same poll, and it goes round
\* only then.
C35_SuspendsOnlyAtPull ==
    /\ [][/\ poll_result' = "Pending" <=> NextOfAwaited = "Pending"
          /\ poll_result' = "Pending" =>
                /\ state' = state
                /\ LastPass(steps').hook = "none"
                /\ UNCHANGED <<final_calls, hook_failed, last_side>>
          /\ LastPass(steps').res = "Continue" <=> poll_result' = "Running"
          /\ poll_result = "Running" =>
                /\ Len(steps') = Len(steps) + 1
                /\ SubSeq(steps', 1, Len(steps)) = steps
                /\ LastPass(steps').state = state
          /\ poll_result # "Running" => Len(steps') = 1]_vars
    /\ [](poll_result = "Running" => LastPass(steps).res = "Continue")
    /\ (poll_result = "Running") ~> (poll_result # "Running")

\* a hook returned Continue, and the poll went on to a pending input
C35_Witness ==
    /\ poll_result = "Pending"
    /\ Len(steps) = 2
    /\ steps[1].item = "Batch"
    /\ steps[1].hook = "process_batch_from_right"
    /\ steps[1].res = "Continue"
    /\ steps[2].state = PullLeft
    /\ steps[2].item = "Pending"
    /\ state = PullLeft

HasBatch(stream) == \E i \in DOMAIN stream : stream[i] = "Batch"

\* C36: whenever a poll returns None the state is
\* BothExhausted{final_result: true}, and no input has a batch left,
\* whatever the hooks return.
C36_EndsOnlyWhenExhausted ==
    poll_result = "None" =>
        /\ state = BothExhausted(TRUE)
        /\ ~HasBatch(left_stream)
        /\ ~HasBatch(right_stream)

\* C37: a batch without rows is skipped in every state: no hook is called,
\* the state stays, so the side to pull from does not flip, and the loop
\* goes round and pulls from the same input again.
C37_EmptyBatchSkipped ==
    /\ [][NextOfAwaited = "Empty" =>
             /\ LastPass(steps').item = "Empty"
             /\ LastPass(steps').pulled = Awaited(state)
             /\ LastPass(steps').hook = "none"
             /\ state' = state
             /\ poll_result' = "Running"
             /\ UNCHANGED <<final_calls, hook_failed, last_side, left_ended,
                            right_ended>>]_vars
    /\ [][(steps # <<>> /\ LastPass(steps).item = "Empty") =>
             /\ Len(steps') = Len(steps) + 1
             /\ LastPass(steps').state = LastPass(steps).state
             /\ LastPass(steps').pulled = LastPass(steps).pulled]_vars

\* the right input ended, two batches without rows of the left input were
\* skipped, then a batch of the left input was handled, all in one poll
C37_Witness ==
    /\ Len(steps) = 4
    /\ steps[1].state = PullRight
    /\ steps[1].item = "None"
    /\ steps[2].state = RightExhausted
    /\ steps[2].item = "Empty"
    /\ steps[3].state = RightExhausted
    /\ steps[3].item = "Empty"
    /\ steps[4].state = RightExhausted
    /\ steps[4].pulled = "left"
    /\ steps[4].item = "Batch"
    /\ steps[4].hook = "process_batch_after_right_end"
    /\ state = RightExhausted

(***************************************************************************)
(* Pruning hash map: the table behind map (hashbrown::raw::RawTable).      *)
(* The table is modelled bucket by bucket: a removal leaves a tombstone    *)
(* when the bucket lies in a run of Group_WIDTH buckets without an empty   *)
(* one, and the capacity is the entries held plus growth_left.  The hasher *)
(* the map is given is the identity on the hash value.                     *)
(***************************************************************************)
Hashes == 1..MaxHash

\* Group::WIDTH: the control bytes examined at once (SSE2)
Group_WIDTH == 16

EmptySlot == [tag |-> "EMPTY", item |-> <<0, 0>>]
DeletedSlot == [tag |-> "DELETED", item |-> <<0, 0>>]
FullSlot(item) == [tag |-> "FULL", item |-> item]

RECURSIVE next_power_of_two(_)
next_power_of_two(n) ==
    IF n <= 1 THEN 1 ELSE 2 * next_power_of_two((n + 1) \div 2)

\* the number of buckets a table needs to hold cap entries
capacity_to_buckets(cap) ==
    IF cap < 8
    THEN (IF cap < 4 THEN 4 ELSE 8)
    ELSE next_power_of_two((cap * 8) \div 7)

\* the number of entries a table of bucket_mask + 1 buckets holds
bucket_mask_to_capacity(bucket_mask) ==
    IF bucket_mask < 8 THEN bucket_mask ELSE ((bucket_mask + 1) \div 8) * 7

\* RawTable::with_capacity: capacity 0 gives the table of one bucket that
\* holds nothing
RawTable_with_capacity(cap) ==
    LET n == IF cap = 0 THEN 1 ELSE capacity_to_buckets(cap) IN
    [map |-> {}, buckets |-> n, ctrl |-> [i \in 0..(n - 1) |-> EmptySlot],
     growth_left |-> bucket_mask_to_capacity(n - 1)]

\* the map as its methods see it
HmSelf ==
    [map |-> map, next |-> next, buckets |-> buckets, ctrl |-> ctrl,
     growth_left |-> growth_left]

\* self.map.len()
len(self) == Cardinality(self.map)

\* self.map.capacity(): items + growth_left
capacity(self) == len(self) + self.growth_left

Max(a, b) == IF a >= b THEN a ELSE b

\* control byte j of the table: the first Group_WIDTH bytes are repeated
\* after the last bucket, and a table of fewer buckets has empty bytes
\* between
ctrl_tag(self, j) ==
    IF j < self.buckets THEN self.ctrl[j].tag
    ELSE IF self.buckets >= Group_WIDTH THEN self.ctrl[j - self.buckets].tag
    ELSE IF j < Group_WIDTH THEN "EMPTY"
    ELSE self.ctrl[j - Group_WIDTH].tag

\* Group::load(ctrl(start)).match_*().lowest_set_bit(): the first byte of the
\* group whose tag is one of tags; -1 stands for None
lowest_set_bit(self, start, tags) ==
    LET hits == {b \in 0..(Group_WIDTH - 1) : ctrl_tag(self, start + b) \in tags}
    IN  IF hits = {} THEN -1
        ELSE CHOOSE b \in hits : \A c \in hits : b <= c

\* find_insert_slot: the groups are probed from the bucket of the hash with
\* a stride growing by Group_WIDTH; fix_insert_slot handles a table smaller
\* than a group
RECURSIVE find_insert_slot_from(_, _, _)
find_insert_slot_from(self, start, stride) ==
    LET bit == lowest_set_bit(self, start, {"EMPTY", "DELETED"}) IN
    IF bit # -1
    THEN LET index == (start + bit) % self.buckets IN
         IF self.ctrl[index].tag = "FULL"
         THEN lowest_set_bit(self, 0, {"EMPTY", "DELETED"})
         ELSE index
    ELSE find_insert_slot_from(
             self, (start + stride + Group_WIDTH) % self.buckets,
             stride + Group_WIDTH)

find_insert_slot(self, hash) ==
    find_insert_slot_from(self, hash % self.buckets, 0)

\* the buckets of an old table from i on are put into the new table
RECURSIVE resize_move(_, _, _)
resize_move(old, i, new) ==
    IF i >= old.buckets THEN new
    ELSE IF old.ctrl[i].tag # "FULL" THEN resize_move(old, i + 1, new)
    ELSE LET index == find_insert_slot(new, old.ctrl[i].item[1]) IN
         resize_move(old, i + 1,
                     [new EXCEPT !.ctrl[index] = FullSlot(old.ctrl[i].item)])

\* RawTable::resize: a fresh table for cap entries, filled bucket by bucket
resize(self, cap) ==
    LET fresh == RawTable_with_capacity(cap)
        moved == resize_move(self, 0, fresh)
    IN  [self EXCEPT !.buckets = fresh.buckets,
                     !.ctrl = moved.ctrl,
                     !.growth_left = fresh.growth_left - len(self)]

\* rehash_in_place from bucket i on: a bucket marked deleted holds an entry
\* not yet placed
RECURSIVE rehash_from(_, _)
rehash_from(self, i) ==
    IF i >= self.buckets THEN self
    ELSE IF self.ctrl[i].tag # "DELETED" THEN rehash_from(self, i + 1)
    ELSE LET item == self.ctrl[i].item
             new_i == find_insert_slot(self, item[1])
             probe_index(at) ==
                 ((at + self.buckets - (item[1] % self.buckets))
                     % self.buckets) \div Group_WIDTH
         IN  IF probe_index(i) = probe_index(new_i)
             THEN rehash_from([self EXCEPT !.ctrl[i] = FullSlot(item)], i + 1)
             ELSE IF self.ctrl[new_i].tag = "EMPTY"
             THEN rehash_from([self EXCEPT !.ctrl[new_i] = FullSlot(item),
                                           !.ctrl[i] = EmptySlot], i + 1)
             ELSE rehash_from([self EXCEPT !.ctrl[new_i] = FullSlot(item),
                                           !.ctrl[i] = self.ctrl[new_i]], i)

\* RawTable::rehash_in_place: the tombstones are dropped, the entries are
\* placed again in the same buckets
rehash_in_place(self) ==
    LET prepared ==
            [self EXCEPT !.ctrl =
                [i \in DOMAIN @ |->
                    IF @[i].tag = "FULL"
                    THEN [tag |-> "DELETED", item |-> @[i].item]
                    ELSE EmptySlot]]
    IN  [rehash_from(prepared, 0) EXCEPT
            !.growth_left =
                bucket_mask_to_capacity(self.buckets - 1) - len(self)]

\* RawTable::reserve(1) with growth_left = 0: a table at most half full is
\* rehashed in place, another one grows
reserve_rehash(self) ==
    LET new_items == len(self) + 1
        full_capacity == bucket_mask_to_capacity(self.buckets - 1)
    IN  IF new_items <= full_capacity \div 2
        THEN rehash_in_place(self)
        ELSE resize(self, Max(new_items, full_capacity + 1))

\* RawTable::insert of an absent hash: the table makes room first when it
\* has no growth left and the slot found is not a tombstone
RawTable_insert(self, hash, value) ==
    LET slot == find_insert_slot(self, hash)
        room == IF self.growth_left = 0 /\ self.ctrl[slot].tag = "EMPTY"
                THEN reserve_rehash(self)
                ELSE self
        index == find_insert_slot(room, hash)
    IN  [room EXCEPT
            !.growth_left = IF room.ctrl[index].tag = "EMPTY" THEN @ - 1 ELSE @,
            !.ctrl[index] = FullSlot(<<hash, value>>),
            !.map = @ \cup {<<hash, value>>}]

\* RawTable::erase: the bucket becomes a tombstone when the run of buckets
\* around it that are not empty is Group_WIDTH long or longer
erase(self, index) ==
    LET index_before ==
            (index + self.buckets * Group_WIDTH - Group_WIDTH) % self.buckets
        empty_before ==
            {b \in 0..(Group_WIDTH - 1) :
                ctrl_tag(self, index_before + b) = "EMPTY"}
        empty_after ==
            {b \in 0..(Group_WIDTH - 1) : ctrl_tag(self, index + b) = "EMPTY"}
        leading_zeros ==
            IF empty_before = {} THEN Group_WIDTH
            ELSE Group_WIDTH - 1
                   - (CHOOSE b \in empty_before : \A c \in empty_before : c <= b)
        trailing_zeros ==
            IF empty_after = {} THEN Group_WIDTH
            ELSE CHOOSE b \in empty_after : \A c \in empty_after : b <= c
    IN  IF leading_zeros + trailing_zeros >= Group_WIDTH
        THEN [self EXCEPT !.ctrl[index] = DeletedSlot,
                          !.map = @ \ {self.ctrl[index].item}]
        ELSE [self EXCEPT !.ctrl[index] = EmptySlot,
                          !.growth_left = @ + 1,
                          !.map = @ \ {self.ctrl[index].item}]

\* the bucket that holds the entry of a hash; -1 stands for None
find(self, hash) ==
    IF \E i \in DOMAIN self.ctrl :
          self.ctrl[i].tag = "FULL" /\ self.ctrl[i].item[1] = hash
    THEN CHOOSE i \in DOMAIN self.ctrl :
             self.ctrl[i].tag = "FULL" /\ self.ctrl[i].item[1] = hash
    ELSE -1

\* RawTable::remove_entry
RawTable_remove_entry(self, hash) ==
    IF find(self, hash) = -1 THEN self ELSE erase(self, find(self, hash))

\* RawTable::shrink_to: never below the entries held, never to more buckets
RawTable_shrink_to(self, min_size) ==
    LET size == Max(len(self), min_size)
        fresh == RawTable_with_capacity(size)
    IN  IF size = 0 \/ (fresh.buckets < self.buckets /\ len(self) = 0)
        THEN [self EXCEPT !.buckets = fresh.buckets,
                          !.ctrl = fresh.ctrl,
                          !.growth_left = fresh.growth_left]
        ELSE IF fresh.buckets < self.buckets
             THEN resize(self, size)
             ELSE self

(***************************************************************************)
(* Pruning hash map: PruningJoinHashMap.                                   *)
(***************************************************************************)
with_capacity(cap) ==
    [map |-> {}, next |-> <<>>,
     buckets |-> RawTable_with_capacity(cap).buckets,
     ctrl |-> RawTable_with_capacity(cap).ctrl,
     growth_left |-> RawTable_with_capacity(cap).growth_left]

extend_zero(self, n) ==
    [self EXCEPT !.next = @ \o [i \in 1..n |-> 0]]

\* JoinHashMapType::update_from_iter for one row: map holds the row index
\* plus one of the latest row of each hash, next the previous one of each row
update_from_iter(self, row, hash_value, offset) ==
    IF find(self, hash_value) # -1
    THEN LET i == find(self, hash_value)
             e == self.ctrl[i].item
         IN  [self EXCEPT !.map = (@ \ {e}) \cup {<<hash_value, row + 1>>},
                          !.ctrl[i] = FullSlot(<<hash_value, row + 1>>),
                          !.next[row - offset + 1] = e[2]]
    ELSE RawTable_insert(self, hash_value, row + 1)

\* update_from_iter for the rows k - 1 .. n - 1 of a batch that starts the
\* buffer: row j - 1 has the hash MaxHash + j, next was extended for n rows
RECURSIVE update_from_iter_rows(_, _, _)
update_from_iter_rows(self, k, n) ==
    IF k > n \/ Len(self.next) < n THEN self
    ELSE update_from_iter_rows(update_from_iter(self, k - 1, MaxHash + k, 0),
                               k + 1, n)

\* the chain of row i, read through next: the rows at and after offset, the
\* latest first; -1 stands for an index outside next
RECURSIVE chain(_, _, _, _)
chain(self, offset, i, fuel) ==
    IF i < offset
    THEN <<>>
    ELSE IF i - offset + 1 > Len(self.next)
         THEN <<-1>>
         ELSE IF self.next[i - offset + 1] = 0 \/ fuel = 0
              THEN <<i>>
              ELSE <<i>> \o chain(self, offset, self.next[i - offset + 1] - 1,
                                  fuel - 1)

\* the rows a lookup of hash_value yields
probe(self, offset, hash_value) ==
    IF \E e \in self.map : e[1] = hash_value
    THEN chain(self, offset,
               (CHOOSE x \in self.map : x[1] = hash_value)[2] - 1,
               Len(self.next))
    ELSE <<>>

\* scale_factor = 0 with capacity > 0: scale_factor - 1 overflows (a panic in
\* a debug build) and the division by scale_factor panics in every build
shrink_if_necessary(self, scale_factor) ==
    IF capacity(self) > scale_factor * len(self)
    THEN IF scale_factor = 0
         THEN [self |-> self, panic |-> TRUE, capacity |-> capacity(self),
               requested |-> {}]
         ELSE LET new_capacity ==
                      (capacity(self) * (scale_factor - 1)) \div scale_factor
              IN  [self |-> RawTable_shrink_to(self, new_capacity),
                   panic |-> FALSE, capacity |-> capacity(self),
                   requested |-> {new_capacity}]
    ELSE [self |-> self, panic |-> FALSE, capacity |-> capacity(self),
          requested |-> {}]

\* the keys collected from k on are removed from the map, one by one
RECURSIVE remove_keys(_, _, _)
remove_keys(self, keys, k) ==
    IF k > Len(keys) \/ len(self) = 0 THEN self
    ELSE remove_keys(RawTable_remove_entry(self, keys[k].item[1]), keys, k + 1)

\* mutant: one more entry of next is drained
prune_hash_values_DrainsOneMore(self, prune_length, deleting_offset, shrink_factor) ==
    IF prune_length > Len(self.next)
    THEN [self |-> self, result |-> "panic", capacity |-> 0,
          requested |-> {}]
    ELSE LET drained ==
                 [self EXCEPT !.next = SubSeq(@, prune_length + 2, Len(@))]
             removable_keys ==
                 SelectSeq([k \in 1..drained.buckets |-> drained.ctrl[k - 1]],
                           LAMBDA b : /\ b.tag = "FULL"
                                      /\ b.item[2] < prune_length
                                                       + deleting_offset)
             removed == remove_keys(drained, removable_keys, 1)
             shrunk == shrink_if_necessary(removed, shrink_factor)
         IN  [self |-> shrunk.self,
              result |-> IF shrunk.panic THEN "panic" ELSE "Ok",
              capacity |-> shrunk.capacity,
              requested |-> shrunk.requested]

\* self.next.drain(0..prune_length) panics when prune_length exceeds the
\* length of next
prune_hash_values(self, prune_length, deleting_offset, shrink_factor) ==
    IF prune_length > Len(self.next)
    THEN [self |-> self, result |-> "panic", capacity |-> 0,
          requested |-> {}]
    ELSE LET drained ==
                 [self EXCEPT !.next = SubSeq(@, prune_length + 1, Len(@))]
             removable_keys ==
                 SelectSeq([k \in 1..drained.buckets |-> drained.ctrl[k - 1]],
                           LAMBDA b : /\ b.tag = "FULL"
                                      /\ b.item[2] < prune_length
                                                       + deleting_offset)
             removed == remove_keys(drained, removable_keys, 1)
             shrunk == shrink_if_necessary(removed, shrink_factor)
         IN  [self |-> shrunk.self,
              result |-> IF shrunk.panic THEN "panic" ELSE "Ok",
              capacity |-> shrunk.capacity,
              requested |-> shrunk.requested]

(***************************************************************************)
(* Pruning hash map: actions.                                              *)
(***************************************************************************)
Call(op, prune_length, deleting_offset, shrink_factor, read, requested) ==
    [op |-> op, prune_length |-> prune_length,
     deleting_offset |-> deleting_offset, shrink_factor |-> shrink_factor,
     capacity |-> read, requested |-> requested]

\* a map that was just constructed
HmInit ==
    /\ \E cap \in (0..MaxCapacityArg) \cup {MaxHashBatch} :
          /\ map = with_capacity(cap).map
          /\ next = with_capacity(cap).next
          /\ buckets = with_capacity(cap).buckets
          /\ ctrl = with_capacity(cap).ctrl
          /\ growth_left = with_capacity(cap).growth_left
          /\ initial_capacity = cap
    /\ deleted_offset = 0
    /\ input_buffer = <<>>
    /\ hm_result = "none"
    /\ batch_rows = 0
    /\ hm_last = Call("with_capacity", 0, 0, 0, 0, {})

\* the owner buffers one more row and puts its hash into the map; a map
\* constructed for a batch takes the batch first and one single row after it
Insert(hash_value) ==
    /\ hm_result # "panic"
    /\ IF initial_capacity = MaxHashBatch
       THEN batch_rows > 0 /\ deleted_offset + Len(next) = batch_rows
       ELSE deleted_offset + Len(next) < MaxRows
    /\ \E self \in {update_from_iter(extend_zero(HmSelf, 1),
                                    deleted_offset + Len(next), hash_value,
                                    deleted_offset)} :
           /\ map' = self.map
           /\ next' = self.next
           /\ buckets' = self.buckets
           /\ ctrl' = self.ctrl
           /\ growth_left' = self.growth_left
    /\ input_buffer' = Append(input_buffer, hash_value)
    /\ hm_result' = "Ok"
    /\ hm_last' = Call("insert", 0, 0, 0, 0, {})
    /\ UNCHANGED <<initial_capacity, deleted_offset, batch_rows>>

\* the owner of a map constructed for a batch buffers a batch of n rows of
\* different hashes, none of them a hash of a single row, before any other
\* row
InsertBatch(n) ==
    /\ hm_result # "panic"
    /\ initial_capacity = MaxHashBatch
    /\ deleted_offset + Len(next) = 0
    /\ \E self \in {update_from_iter_rows(extend_zero(HmSelf, n), 1, n)} :
           /\ map' = self.map
           /\ next' = self.next
           /\ buckets' = self.buckets
           /\ ctrl' = self.ctrl
           /\ growth_left' = self.growth_left
    /\ input_buffer' = [k \in 1..n |-> MaxHash + k]
    /\ batch_rows' = n
    /\ hm_result' = "Ok"
    /\ hm_last' = Call("update_from_iter", 0, 0, 0, 0, {})
    /\ UNCHANGED <<initial_capacity, deleted_offset>>

\* the owner prunes the prune_length oldest rows: it hands the rows pruned
\* before as deleting_offset, then drops the rows of its buffer and advances
\* its offset; the rows of a batch are pruned by the call after the batch
Prune(prune_length, shrink_factor) ==
    /\ hm_result # "panic"
    /\ batch_rows = 0 \/ hm_last.op = "update_from_iter"
    /\ \E r \in {prune_hash_values(HmSelf, prune_length, deleted_offset,
                                  shrink_factor)} :
           /\ map' = r.self.map
           /\ next' = r.self.next
           /\ buckets' = r.self.buckets
           /\ ctrl' = r.self.ctrl
           /\ growth_left' = r.self.growth_left
           /\ hm_result' = r.result
           /\ hm_last' = Call("prune_hash_values", prune_length,
                              deleted_offset, shrink_factor, r.capacity,
                              r.requested)
           /\ IF r.result = "Ok"
              THEN /\ deleted_offset' = deleted_offset + prune_length
                   /\ input_buffer' = SubSeq(input_buffer, prune_length + 1,
                                             Len(input_buffer))
              ELSE UNCHANGED <<deleted_offset, input_buffer>>
    /\ UNCHANGED <<initial_capacity, batch_rows>>

\* shrink_if_necessary called on its own, as its test does
ShrinkIfNecessary(scale_factor) ==
    /\ hm_result # "panic"
    /\ \E r \in {shrink_if_necessary(HmSelf, scale_factor)} :
           /\ map' = r.self.map
           /\ next' = r.self.next
           /\ buckets' = r.self.buckets
           /\ ctrl' = r.self.ctrl
           /\ growth_left' = r.self.growth_left
           /\ hm_result' = IF r.panic THEN "panic" ELSE "Ok"
           /\ hm_last' = Call("shrink_if_necessary", 0, 0, scale_factor,
                              r.capacity, r.requested)
    /\ UNCHANGED <<initial_capacity, deleted_offset, input_buffer, batch_rows>>

HmNext ==
    \/ \E hash_value \in Hashes :
          Insert(hash_value) /\ UNCHANGED <<rc_vars, ej_vars, sw_vars, ix_vars, iv_vars>>
    \/ \E n \in {MaxHashBatch - 1, MaxHashBatch} :
          InsertBatch(n) /\ UNCHANGED <<rc_vars, ej_vars, sw_vars, ix_vars, iv_vars>>
    \/ \E prune_length \in 0..(Len(next) + 1),
          shrink_factor \in 0..MaxShrinkFactor :
          Prune(prune_length, shrink_factor) /\ UNCHANGED <<rc_vars, ej_vars, sw_vars, ix_vars, iv_vars>>
    \/ \E scale_factor \in 0..MaxShrinkFactor :
          ShrinkIfNecessary(scale_factor) /\ UNCHANGED <<rc_vars, ej_vars, sw_vars, ix_vars, iv_vars>>

HashMapInit == HmInit /\ RcInit /\ EjIdle /\ SwIdle /\ IxIdle /\ IvIdle

HashMapSpec == HashMapInit /\ [][HmNext]_vars

(***************************************************************************)
(* Pruning hash map: properties.                                           *)
(***************************************************************************)
\* the last call was a prune_hash_values that returned
PruneReturned == hm_last.op = "prune_hash_values" /\ hm_result = "Ok"

\* the hashes of single rows and of the rows of the batch
AllHashes == 1..(MaxHash + batch_rows)

\* the buffered rows of hash h: their global row ids
LiveRows(h) ==
    {deleted_offset + j - 1 : j \in {k \in DOMAIN input_buffer :
                                        input_buffer[k] = h}}

\* C16 as claimed: after prune_hash_values(prune_length, deleting_offset, _)
\* every hash whose latest row is one of the first deleting_offset +
\* prune_length rows is gone from the map (map holds the row index plus one),
\* and every hash of a surviving row is still in it.
C16_PrunedHashesDeleted ==
    PruneReturned =>
        /\ \A e \in map :
              e[2] - 1 >= hm_last.deleting_offset + hm_last.prune_length
        /\ \A h \in AllHashes : LiveRows(h) # {} => \E e \in map : e[1] = h

\* C17: whatever rows were inserted and pruned, a lookup of a hash yields
\* row ids in strictly decreasing order, none below the deleted offset:
\* it yields the buffered rows of that hash, the latest first.
C17_ChainsDecrease ==
    hm_result # "panic" =>
        \A h \in AllHashes :
            LET c == probe(HmSelf, deleted_offset, h) IN
            /\ \A i \in 1..(Len(c) - 1) : c[i] > c[i + 1]
            /\ \A i \in DOMAIN c : c[i] >= deleted_offset
            /\ {c[i] : i \in DOMAIN c} = LiveRows(h)

\* rows were pruned, a chain of two rows survives, and the map still holds
\* the entry of a hash without a buffered row
C17_Witness ==
    /\ PruneReturned
    /\ deleted_offset > 0
    /\ \E h \in Hashes : Len(probe(HmSelf, deleted_offset, h)) = 2
    /\ \E e \in map : LiveRows(e[1]) = {}

\* the capacity of the table with_capacity(initial_capacity) constructs
InitialCapacity == RawTable_with_capacity(initial_capacity).growth_left

\* C18 as claimed: after prune_hash_values(_, _, s),
\* len <= capacity <= max(initial capacity, s * len).
C18_ShrinkBound ==
    PruneReturned =>
        /\ len(HmSelf) <= capacity(HmSelf)
        /\ capacity(HmSelf) <=
              Max(InitialCapacity, hm_last.shrink_factor * len(HmSelf))

\* C19 as claimed: shrink_if_necessary(scale_factor), called alone or by
\* prune_hash_values, changes the capacity only when capacity >
\* scale_factor * len; it then asks for
\* capacity * (scale_factor - 1) / scale_factor; for scale_factor >= 1 the
\* capacity afterwards is at least len and at most the capacity before, and
\* no entry is lost (within prune_hash_values: none but the removable keys).
C19_ShrinkArithmetic ==
    [][(/\ hm_last'.op \in {"shrink_if_necessary", "prune_hash_values"}
        /\ hm_result' = "Ok") =>
          /\ capacity(HmSelf)' # hm_last'.capacity =>
                hm_last'.capacity > hm_last'.shrink_factor * len(HmSelf)'
          /\ hm_last'.requested =
                IF hm_last'.capacity > hm_last'.shrink_factor * len(HmSelf)'
                THEN {(hm_last'.capacity * (hm_last'.shrink_factor - 1))
                          \div hm_last'.shrink_factor}
                ELSE {}
          /\ hm_last'.shrink_factor >= 1 =>
                /\ len(HmSelf)' <= capacity(HmSelf)'
                /\ capacity(HmSelf)' <= hm_last'.capacity
          /\ hm_last'.op = "shrink_if_necessary" =>
                /\ map' = map
                /\ next' = next
          /\ hm_last'.op = "prune_hash_values" =>
                map' = {x \in map : x[2] >= hm_last'.prune_length
                                               + hm_last'.deleting_offset}]_vars

\* C20 as claimed: prune_hash_values returns Ok for every prune_length,
\* deleting_offset and shrink_factor.
C20_PruningNeverFails ==
    hm_last.op = "prune_hash_values" => hm_result = "Ok"

(***************************************************************************)
(* Sliding window: scalar values, intervals, the join filter.              *)
(***************************************************************************)
ScalarValue(v) == [is_null |-> FALSE, value |-> v]
NullScalar == [is_null |-> TRUE, value |-> 0]

IntervalBound(value, open) == [value |-> value, open |-> open]
Interval(lower, upper) == [lower |-> lower, upper |-> upper]

\* IntervalBound::make_unbounded: an infinite bound, a null of the data type
make_unbounded == IntervalBound(NullScalar, TRUE)

\* the order of two scalars of one type, the order of their Option values:
\* a null is below every value
lt(a, b) == ~b.is_null /\ (a.is_null \/ a.value < b.value)
gt(a, b) == lt(b, a)

\* the values of a sort column, and the rows of a batch sorted on it (nulls
\* last)
Values == {ScalarValue(v) : v \in 0..MaxValue}

is_sorted(rows, descending) ==
    \A i \in 1..(Len(rows) - 1) :
        \/ rows[i + 1].is_null
        \/ /\ ~rows[i].is_null
           /\ IF descending
              THEN rows[i].value >= rows[i + 1].value
              ELSE rows[i].value <= rows[i + 1].value

SortedBatches(S, descending) ==
    {b \in SeqsUpTo(S, MaxBatchRows) : b # <<>> /\ is_sorted(b, descending)}

\* the join filter on a build row and a probe row, build > probe - below
\* and build < probe + above or one of the two comparisons alone: a
\* comparison with a null is not true
JoinFilter(filter, build_value, probe_value) ==
    /\ ~build_value.is_null
    /\ ~probe_value.is_null
    /\ filter.has_below => build_value.value > probe_value.value - filter.below
    /\ filter.has_above => build_value.value < probe_value.value + filter.above

\* the filters: both comparisons, or one of them
WindowFilters ==
    {filter \in [has_below : BOOLEAN, below : 1..MaxSlack,
                 has_above : BOOLEAN, above : 1..MaxSlack] :
        /\ filter.has_below \/ filter.has_above
        /\ ~filter.has_below => filter.below = 1
        /\ ~filter.has_above => filter.above = 1}

\* update_filter_expr_bounds: the build side gets the null interval, the
\* probe side the values of the first and of the last row of the probe batch
\* mutant: the interval is the one of an ascending column whatever the order
update_filter_expr_bounds_IgnoresOrder(batch, descending) ==
    [build |-> Interval(IntervalBound(NullScalar, TRUE),
                        IntervalBound(NullScalar, TRUE)),
     probe |-> Interval(IntervalBound(batch[1], FALSE),
                        IntervalBound(batch[Len(batch)], FALSE))]

\* mutant: the endpoints of the probe interval are open
update_filter_expr_bounds_OpenProbe(batch, descending) ==
    [build |-> Interval(IntervalBound(NullScalar, TRUE),
                        IntervalBound(NullScalar, TRUE)),
     probe |-> IF descending
               THEN Interval(IntervalBound(batch[Len(batch)], TRUE),
                             IntervalBound(batch[1], TRUE))
               ELSE Interval(IntervalBound(batch[1], TRUE),
                             IntervalBound(batch[Len(batch)], TRUE))]

update_filter_expr_bounds(batch, descending) ==
    LET null_interval == Interval(IntervalBound(NullScalar, TRUE),
                                  IntervalBound(NullScalar, TRUE))
        left_value == batch[1]
        right_value == batch[Len(batch)]
    IN  [build |-> null_interval,
         probe |-> IF descending
                   THEN Interval(IntervalBound(right_value, FALSE),
                                 IntervalBound(left_value, FALSE))
                   ELSE Interval(IntervalBound(left_value, FALSE),
                                 IntervalBound(right_value, FALSE))]

\* ExprIntervalGraph::update_ranges: the build interval shrunk to the values
\* that satisfy the filter with some value of the probe interval; a side the
\* filter does not bound stays unbounded
update_ranges(filter, bounds) ==
    LET feasible ==
            {a \in (0 - MaxSlack)..(MaxValue + MaxSlack) :
                \E b \in bounds.probe.lower.value.value
                             ..bounds.probe.upper.value.value :
                    JoinFilter(filter, ScalarValue(a), ScalarValue(b))}
        lower == CHOOSE a \in feasible : \A x \in feasible : a <= x
        upper == CHOOSE a \in feasible : \A x \in feasible : a >= x
    IN  [build |-> Interval(IF filter.has_below
                            THEN IntervalBound(ScalarValue(lower), FALSE)
                            ELSE make_unbounded,
                            IF filter.has_above
                            THEN IntervalBound(ScalarValue(upper), FALSE)
                            ELSE make_unbounded),
         probe |-> bounds.probe]

\* what the interval graph can answer to one call: update_ranges fails or
\* not, and the sides whose expression get_deepest_pruning_exprs names
GraphAnswers ==
    [update_ranges : {"Err"}, deepest : {{}}]
        \cup [update_ranges : {"Ok"}, deepest : SUBSET {"Left", "Right"}]

\* ExprIntervalGraph::get_deepest_pruning_exprs: the expressions the graph
\* names, the build side's first, each with its interval
get_deepest_pruning_exprs(graph, ranges, build_desc, probe_desc) ==
    (IF "Left" \in graph.deepest
     THEN <<[side |-> "Left", options |-> [descending |-> build_desc],
             interval |-> ranges.build]>>
     ELSE <<>>)
    \o (IF "Right" \in graph.deepest
        THEN <<[side |-> "Right", options |-> [descending |-> probe_desc],
                interval |-> ranges.probe]>>
        ELSE <<>>)

\* get_build_side_pruned_exprs: the (sort expr, interval) pairs of the
\* expressions of the build side
RECURSIVE get_build_side_pruned_exprs(_, _)
get_build_side_pruned_exprs(shrunk_exprs, build_side) ==
    IF shrunk_exprs = <<>> THEN <<>>
    ELSE (IF Head(shrunk_exprs).side = build_side
          THEN <<[options |-> Head(shrunk_exprs).options,
                  interval |-> Head(shrunk_exprs).interval]>>
          ELSE <<>>)
         \o get_build_side_pruned_exprs(Tail(shrunk_exprs), build_side)

\* calculate_the_necessary_build_side_range: an error of the graph is
\* returned, else the pairs of the build side, none when the graph names no
\* expression of the build side
calculate_the_necessary_build_side_range(filter, probe_batch_rows, probe_desc, build_desc, graph) ==
    LET bounds == update_filter_expr_bounds(probe_batch_rows, probe_desc) IN
    IF graph.update_ranges = "Err"
    THEN [kind |-> "Err", interval |-> <<>>]
    ELSE LET shrunk_exprs ==
                 get_deepest_pruning_exprs(graph, update_ranges(filter, bounds),
                                           build_desc, probe_desc)
         IN  [kind |-> "Ok",
              interval |-> get_build_side_pruned_exprs(shrunk_exprs, "Left")]

\* mutant: one pair that is passed is enough
check_if_sliding_window_condition_is_met_AnyPair(incoming_build_batch, shrunk) ==
    LET latest_value == incoming_build_batch[Len(incoming_build_batch)] IN
    \E i \in DOMAIN shrunk :
        IF latest_value.is_null
        THEN FALSE
        ELSE IF shrunk[i].options.descending
             THEN latest_value.value < shrunk[i].interval.lower.value.value
             ELSE latest_value.value > shrunk[i].interval.upper.value.value

\* mutant: without a pair to check the window is not complete
check_if_sliding_window_condition_is_met_EmptyIsFalse(incoming_build_batch, shrunk) ==
    LET latest_value == incoming_build_batch[Len(incoming_build_batch)] IN
    /\ shrunk # <<>>
    /\ \A i \in DOMAIN shrunk :
          IF latest_value.is_null
          THEN FALSE
          ELSE IF shrunk[i].options.descending
               THEN latest_value.value < shrunk[i].interval.lower.value.value
               ELSE latest_value.value > shrunk[i].interval.upper.value.value

check_if_sliding_window_condition_is_met(incoming_build_batch, shrunk) ==
    LET latest_value == incoming_build_batch[Len(incoming_build_batch)] IN
    \A i \in DOMAIN shrunk :
        IF latest_value.is_null
        THEN FALSE
        ELSE IF shrunk[i].options.descending
             THEN lt(latest_value, shrunk[i].interval.lower.value)
             ELSE gt(latest_value, shrunk[i].interval.upper.value)

(***************************************************************************)
(* Sliding window: actions.                                                *)
(***************************************************************************)
\* a probe batch has arrived, no build row yet
SwInit ==
    /\ join_filter \in WindowFilters
    /\ build_descending \in BOOLEAN
    /\ probe_descending \in BOOLEAN
    /\ probe_batch \in SortedBatches(Values, probe_descending)
    /\ build_inner_buffer = <<>>
    /\ intervals = [kind |-> "none", interval |-> <<>>]
    /\ window_met = "none"
    /\ met_at = 0

\* PullProbe: the build-side intervals of the probe batch are computed,
\* with graph the answer of the interval graph; an error ends the stream
CalculateRange(graph) ==
    /\ intervals.kind = "none"
    /\ intervals' = calculate_the_necessary_build_side_range(
                        join_filter, probe_batch, probe_descending,
                        build_descending, graph)
    /\ UNCHANGED <<join_filter, build_descending, probe_descending,
                   probe_batch, build_inner_buffer, window_met, met_at>>

\* PullBuild: a build batch arrives, in the order of the build side, and the
\* window condition is checked on it
PullBuild(batch) ==
    /\ intervals.kind = "Ok"
    /\ Len(build_inner_buffer) + Len(batch) <= MaxBuildRows
    /\ is_sorted(build_inner_buffer \o batch, build_descending)
    /\ build_inner_buffer' = build_inner_buffer \o batch
    /\ LET met == check_if_sliding_window_condition_is_met(
                      batch, intervals.interval)
       IN  /\ window_met' = IF met THEN "true" ELSE "false"
           /\ met_at' = IF met /\ met_at = 0
                        THEN Len(build_inner_buffer) + Len(batch)
                        ELSE met_at
    /\ UNCHANGED <<join_filter, build_descending, probe_descending,
                   probe_batch, intervals>>

SwNext ==
    \/ \E graph \in GraphAnswers :
          CalculateRange(graph) /\ UNCHANGED <<rc_vars, ej_vars, hm_vars, ix_vars, iv_vars>>
    \/ \E batch \in SortedBatches(Values \cup {NullScalar}, build_descending) :
          PullBuild(batch) /\ UNCHANGED <<rc_vars, ej_vars, hm_vars, ix_vars, iv_vars>>

WindowInit == SwInit /\ RcInit /\ EjIdle /\ HmIdle /\ IxIdle /\ IvIdle

WindowSpec == WindowInit /\ [][SwNext]_vars

(***************************************************************************)
(* Sliding window: properties.                                             *)
(***************************************************************************)
\* C15: once check_if_sliding_window_condition_is_met has returned true for
\* a build batch against the shrunk build-side intervals computed for the
\* probe batch, no build row that arrives later satisfies the join filter
\* with a row of that probe batch.
C15_WindowComplete ==
    met_at > 0 =>
        \A i \in (met_at + 1)..Len(build_inner_buffer) :
            \A j \in DOMAIN probe_batch :
                ~JoinFilter(join_filter, build_inner_buffer[i], probe_batch[j])

(***************************************************************************)
(* Index adjustment: index arrays and the functions on them.               *)
(***************************************************************************)
\* a null slot of an index array
Null == -1

JoinTypes == {"Inner", "Left", "Right", "Full", "LeftSemi", "LeftAnti",
              "RightSemi", "RightAnti"}

Min(a, b) == IF a <= b THEN a ELSE b

\* the values of the Rust range a..b, in order
Range(a, b) == [k \in 1..(IF b > a THEN b - a ELSE 0) |-> a + k - 1]

\* an array of n null slots
Nulls(n) == [k \in 1..n |-> Null]

\* the values an array holds
Elems(array) == {array[k] : k \in DOMAIN array}

Internal(message) == [kind |-> "Internal", message |-> message]
OkIndices(build_indices, probe_indices) == [kind |-> "Ok", build_indices |-> build_indices, probe_indices |-> probe_indices]

\* the loop of append_probe_indices_in_order over the zipped arrays, from
\* pair i on
RECURSIVE append_pairs(_, _, _, _, _, _)
append_pairs(build_indices, probe_indices, i, prev_index, new_build_indices, new_probe_indices) ==
    IF i > Min(Len(build_indices), Len(probe_indices))
    THEN [kind |-> "Ok", prev_index |-> prev_index,
          build_indices |-> new_build_indices,
          probe_indices |-> new_probe_indices]
    ELSE IF build_indices[i] = Null \/ probe_indices[i] = Null
    THEN Internal("Error on probe indices calculation")
    ELSE append_pairs(build_indices, probe_indices, i + 1,
             probe_indices[i] + 1,
             new_build_indices
                 \o Nulls(Len(Range(prev_index, probe_indices[i])))
                 \o <<build_indices[i]>>,
             new_probe_indices
                 \o Range(prev_index, probe_indices[i])
                 \o <<probe_indices[i]>>)

\* mutant: the probe rows after the last pair are not appended
append_probe_indices_in_order_DropsTail(build_indices, probe_indices, count_probe_batch) ==
    LET r == append_pairs(build_indices, probe_indices, 1, 0, <<>>, <<>>) IN
    IF r.kind = "Internal" THEN r
    ELSE OkIndices(r.build_indices, r.probe_indices)

\* mutant: a null slot ends the walk with empty arrays, not with an error
append_probe_indices_in_order_NullEndsWalk(build_indices, probe_indices, count_probe_batch) ==
    LET r == append_pairs(build_indices, probe_indices, 1, 0, <<>>, <<>>) IN
    IF r.kind = "Internal" THEN OkIndices(<<>>, <<>>)
    ELSE OkIndices(
             r.build_indices
                 \o Nulls(Len(Range(r.prev_index, count_probe_batch))),
             r.probe_indices \o Range(r.prev_index, count_probe_batch))

\* mutant: a probe row is emitted once, whatever number of build rows it
\* matches
append_probe_indices_in_order_OncePerRow(build_indices, probe_indices, count_probe_batch) ==
    LET r == append_pairs(build_indices, probe_indices, 1, 0, <<>>, <<>>) IN
    IF r.kind = "Internal" THEN r
    ELSE OkIndices(Nulls(count_probe_batch), Range(0, count_probe_batch))

append_probe_indices_in_order(build_indices, probe_indices, count_probe_batch) ==
    LET r == append_pairs(build_indices, probe_indices, 1, 0, <<>>, <<>>) IN
    IF r.kind = "Internal" THEN r
    ELSE OkIndices(
             r.build_indices
                 \o Nulls(Len(Range(r.prev_index, count_probe_batch))),
             r.probe_indices \o Range(r.prev_index, count_probe_batch))

\* joins/utils.rs: the rows of [0, row_count) no input index names
get_anti_indices(row_count, input_indices) ==
    SelectSeq(Range(0, row_count), LAMBDA v : v \notin Elems(input_indices))

\* joins/utils.rs: the rows of [0, row_count) some input index names
get_semi_indices(row_count, input_indices) ==
    SelectSeq(Range(0, row_count), LAMBDA v : v \in Elems(input_indices))

\* joins/utils.rs: the unmatched right rows appended, with null left ids
append_right_indices(left_indices, right_indices, right_unmatched_indices) ==
    <<left_indices \o Nulls(Len(right_unmatched_indices)),
      right_indices \o right_unmatched_indices>>

\* mutant: Full is handled like Right
adjust_probe_side_indices_by_join_type_FullInOrder(build_indices, probe_indices, count_probe_batch, join_type) ==
    CASE join_type \in {"Inner", "Left"} ->
             OkIndices(build_indices, probe_indices)
      [] join_type \in {"Right", "Full"} ->
             append_probe_indices_in_order(build_indices, probe_indices,
                                           count_probe_batch)
      [] join_type = "RightSemi" ->
             OkIndices(build_indices,
                       get_semi_indices(count_probe_batch, probe_indices))
      [] join_type = "RightAnti" ->
             OkIndices(build_indices,
                       get_anti_indices(count_probe_batch, probe_indices))
      [] join_type \in {"LeftAnti", "LeftSemi"} -> OkIndices(<<>>, <<>>)

\* mutant: RightSemi keeps the probe indices as they came
adjust_probe_side_indices_by_join_type_SemiKeepsHits(build_indices, probe_indices, count_probe_batch, join_type) ==
    CASE join_type \in {"Inner", "Left", "RightSemi"} ->
             OkIndices(build_indices, probe_indices)
      [] join_type = "Right" ->
             append_probe_indices_in_order(build_indices, probe_indices,
                                           count_probe_batch)
      [] join_type = "Full" ->
             LET right_unmatched_indices ==
                     get_anti_indices(count_probe_batch, probe_indices)
                 r == append_right_indices(build_indices, probe_indices,
                                           right_unmatched_indices)
             IN  OkIndices(r[1], r[2])
      [] join_type = "RightAnti" ->
             OkIndices(build_indices,
                       get_anti_indices(count_probe_batch, probe_indices))
      [] join_type \in {"LeftAnti", "LeftSemi"} -> OkIndices(<<>>, <<>>)

adjust_probe_side_indices_by_join_type(build_indices, probe_indices, count_probe_batch, join_type) ==
    CASE join_type \in {"Inner", "Left"} ->
             OkIndices(build_indices, probe_indices)
      [] join_type = "Right" ->
             append_probe_indices_in_order(build_indices, probe_indices,
                                           count_probe_batch)
      [] join_type = "Full" ->
             LET right_unmatched_indices ==
                     get_anti_indices(count_probe_batch, probe_indices)
                 r == append_right_indices(build_indices, probe_indices,
                                           right_unmatched_indices)
             IN  OkIndices(r[1], r[2])
      [] join_type = "RightSemi" ->
             OkIndices(build_indices,
                       get_semi_indices(count_probe_batch, probe_indices))
      [] join_type = "RightAnti" ->
             OkIndices(build_indices,
                       get_anti_indices(count_probe_batch, probe_indices))
      [] join_type \in {"LeftAnti", "LeftSemi"} -> OkIndices(<<>>, <<>>)

\* mutant: the offset of the pruned rows is not added
get_pruning_anti_indices_NoOffset(prune_length, deleted_offset_, visited_rows) ==
    SelectSeq(Range(0, prune_length), LAMBDA idx : idx \notin visited_rows)

get_pruning_anti_indices(prune_length, deleted_offset_, visited_rows) ==
    SelectSeq(Range(0, prune_length),
              LAMBDA idx : (idx + deleted_offset_) \notin visited_rows)

get_pruning_semi_indices(prune_length, deleted_offset_, visited_rows) ==
    SelectSeq(Range(0, prune_length),
              LAMBDA idx : (idx + deleted_offset_) \in visited_rows)

\* mutant: the offset is not added to the indices recorded
record_visited_indices_NoOffset(visited, offset, indices) ==
    visited \cup {indices[k].value : k \in DOMAIN indices}

\* record_visited_indices: indices.values() reads the value of every slot,
\* whether the slot is valid or null
record_visited_indices(visited, offset, indices) ==
    visited \cup {indices[k].value + offset : k \in DOMAIN indices}

\* mutant: LeftAnti is rejected like the right-side join types
calculate_build_outer_indices_by_join_type_RejectsLeftAnti(prune_length, visited_rows, deleted_offset_, join_type) ==
    CASE join_type \in {"Left", "Full"} ->
             LET build_unmatched_indices ==
                     get_pruning_anti_indices(prune_length, deleted_offset_,
                                              visited_rows)
             IN  OkIndices(build_unmatched_indices,
                           Nulls(Len(build_unmatched_indices)))
      [] join_type = "LeftSemi" ->
             LET build_unmatched_indices ==
                     get_pruning_semi_indices(prune_length, deleted_offset_,
                                              visited_rows)
             IN  OkIndices(build_unmatched_indices,
                           Nulls(Len(build_unmatched_indices)))
      [] OTHER -> Internal("Given join type is not supported")

calculate_build_outer_indices_by_join_type(prune_length, visited_rows, deleted_offset_, join_type) ==
    CASE join_type \in {"Left", "LeftAnti", "Full"} ->
             LET build_unmatched_indices ==
                     get_pruning_anti_indices(prune_length, deleted_offset_,
                                              visited_rows)
             IN  OkIndices(build_unmatched_indices,
                           Nulls(Len(build_unmatched_indices)))
      [] join_type = "LeftSemi" ->
             LET build_unmatched_indices ==
                     get_pruning_semi_indices(prune_length, deleted_offset_,
                                              visited_rows)
             IN  OkIndices(build_unmatched_indices,
                           Nulls(Len(build_unmatched_indices)))
      [] OTHER -> Internal("Given join type is not supported")

(***************************************************************************)
(* Index adjustment: the calls and their actions.                          *)
(***************************************************************************)
\* parallel index arrays of a hash lookup, a null slot allowed anywhere
IndexArrays(n) ==
    [build_indices : [1..n -> {Null} \cup 0..MaxBuildIndex],
     probe_indices : [1..n -> {Null} \cup 0..(MaxProbeCount - 1)]]

\* the calls with n index pairs
AdjustCalls(n) ==
    {[op |-> "adjust_probe_side_indices_by_join_type",
      build_indices |-> a.build_indices, probe_indices |-> a.probe_indices,
      count_probe_batch |-> c, join_type |-> j] :
        a \in IndexArrays(n), c \in 0..MaxProbeCount, j \in JoinTypes}

AppendCalls(n) ==
    {[op |-> "append_probe_indices_in_order",
      build_indices |-> a.build_indices, probe_indices |-> a.probe_indices,
      count_probe_batch |-> c] :
        a \in IndexArrays(n), c \in 0..MaxProbeCount}

\* the calls that prune prune_length rows
BuildOuterCalls(prune_length) ==
    [op : {"calculate_build_outer_indices_by_join_type"},
     prune_length : {prune_length},
     visited_rows : SUBSET (0..(MaxPruneLength + MaxDeletedOffset)),
     deleted_offset : 0..MaxDeletedOffset,
     join_type : JoinTypes]

\* the calls that record n indices and then prune: a slot of the index array
\* holds a value, and is valid or null
RecordCalls(n) ==
    [op : {"record_visited_indices"},
     visited : SUBSET (0..MaxDeletedOffset),
     offset : 0..MaxDeletedOffset,
     indices : [1..n -> [value : 0..MaxPruneLength, valid : BOOLEAN]],
     prune_length : 0..MaxPruneLength]

\* a call is about to be made
IxInit ==
    /\ \/ \E n \in 0..MaxPairs : ix_call \in AdjustCalls(n)
       \/ \E n \in 0..MaxPairs : ix_call \in AppendCalls(n)
       \/ \E n \in 0..MaxPruneLength : ix_call \in BuildOuterCalls(n)
       \/ \E n \in 0..MaxPairs : ix_call \in RecordCalls(n)
    /\ ix_result = [kind |-> "none"]

AdjustProbeSide ==
    /\ ix_call.op = "adjust_probe_side_indices_by_join_type"
    /\ ix_result.kind = "none"
    /\ ix_result' = adjust_probe_side_indices_by_join_type(
                        ix_call.build_indices, ix_call.probe_indices,
                        ix_call.count_probe_batch, ix_call.join_type)
    /\ UNCHANGED ix_call

AppendProbeIndices ==
    /\ ix_call.op = "append_probe_indices_in_order"
    /\ ix_result.kind = "none"
    /\ ix_result' = append_probe_indices_in_order(
                        ix_call.build_indices, ix_call.probe_indices,
                        ix_call.count_probe_batch)
    /\ UNCHANGED ix_call

CalculateBuildOuter ==
    /\ ix_call.op = "calculate_build_outer_indices_by_join_type"
    /\ ix_result.kind = "none"
    /\ ix_result' = calculate_build_outer_indices_by_join_type(
                        ix_call.prune_length, ix_call.visited_rows,
                        ix_call.deleted_offset, ix_call.join_type)
    /\ UNCHANGED ix_call

\* the indices are recorded, then the rows to prune are looked up with the
\* same offset
RecordVisited ==
    /\ ix_call.op = "record_visited_indices"
    /\ ix_result.kind = "none"
    /\ LET visited == record_visited_indices(ix_call.visited, ix_call.offset,
                                             ix_call.indices)
       IN  ix_result' =
               [kind |-> "Ok",
                visited |-> visited,
                semi |-> get_pruning_semi_indices(ix_call.prune_length,
                                                  ix_call.offset, visited),
                anti |-> get_pruning_anti_indices(ix_call.prune_length,
                                                  ix_call.offset, visited)]
    /\ UNCHANGED ix_call

IxNext ==
    \/ AdjustProbeSide /\ UNCHANGED <<rc_vars, ej_vars, hm_vars, sw_vars, iv_vars>>
    \/ AppendProbeIndices /\ UNCHANGED <<rc_vars, ej_vars, hm_vars, sw_vars, iv_vars>>
    \/ CalculateBuildOuter /\ UNCHANGED <<rc_vars, ej_vars, hm_vars, sw_vars, iv_vars>>
    \/ RecordVisited /\ UNCHANGED <<rc_vars, ej_vars, hm_vars, sw_vars, iv_vars>>

IndexInit == IxInit /\ RcInit /\ EjIdle /\ HmIdle /\ SwIdle /\ IvIdle

IndexSpec == IndexInit /\ [][IxNext]_vars

(***************************************************************************)
(* Index adjustment: properties.                                           *)
(***************************************************************************)
\* the call returned
Returned(op) == ix_call.op = op /\ ix_result.kind # "none"

\* the index arrays of the call are what a hash lookup hands over: no null
\* slot, the probe rows in order and inside the probe batch
LookupInput ==
    /\ Null \notin Elems(ix_call.build_indices)
    /\ Null \notin Elems(ix_call.probe_indices)
    /\ \A k \in DOMAIN ix_call.probe_indices :
          ix_call.probe_indices[k] < ix_call.count_probe_batch
    /\ \A k \in 1..(Len(ix_call.probe_indices) - 1) :
          ix_call.probe_indices[k] <= ix_call.probe_indices[k + 1]

\* how often v occurs in an array
Count(array, v) == Cardinality({k \in DOMAIN array : array[k] = v})

\* the (build, probe) pairs of two parallel arrays
Pairs(build_indices, probe_indices) ==
    [k \in 1..Min(Len(build_indices), Len(probe_indices)) |->
        <<build_indices[k], probe_indices[k]>>]

\* the rows of [0, count) that no probe index names, ascending
Unmatched(count, probe_indices) ==
    SelectSeq(Range(0, count), LAMBDA v : v \notin Elems(probe_indices))

NonDecreasing(array) ==
    \A k \in 1..(Len(array) - 1) : array[k] <= array[k + 1]

StrictlyIncreasing(array) ==
    \A k \in 1..(Len(array) - 1) : array[k] < array[k + 1]

RightCall ==
    /\ Returned("adjust_probe_side_indices_by_join_type")
    /\ ix_call.join_type = "Right"

\* C21 as claimed: for Right and every null-free input of a hash lookup,
\* probe rows matching several build rows included, the probe indices
\* returned are strictly increasing and hold every index of
\* [0, count_probe_batch) exactly once.
C21_ProbeStrictlyIncreasing ==
    (RightCall /\ LookupInput) =>
        /\ ix_result.kind = "Ok"
        /\ StrictlyIncreasing(ix_result.probe_indices)
        /\ \A v \in 0..(ix_call.count_probe_batch - 1) :
              Count(ix_result.probe_indices, v) = 1

\* C21 amended: for Right and every null-free input of a hash lookup, the
\* probe indices returned are non-decreasing and hold nothing but the
\* indices of [0, count_probe_batch); a probe row matching k >= 1 build rows
\* occurs k times, a row without a match once; the array is strictly
\* increasing exactly when no probe row matches several build rows.
C21_ProbeNonDecreasing ==
    (RightCall /\ LookupInput) =>
        /\ ix_result.kind = "Ok"
        /\ NonDecreasing(ix_result.probe_indices)
        /\ Elems(ix_result.probe_indices)
              = 0..(ix_call.count_probe_batch - 1)
        /\ \A v \in 0..(ix_call.count_probe_batch - 1) :
              Count(ix_result.probe_indices, v)
                  = Max(1, Count(ix_call.probe_indices, v))
        /\ StrictlyIncreasing(ix_result.probe_indices)
              <=> \A v \in 0..(ix_call.count_probe_batch - 1) :
                      Count(ix_call.probe_indices, v) <= 1

\* a Right call whose probe row 1 matched two build rows, rows 0 and 2 none
C21_Witness ==
    /\ RightCall
    /\ LookupInput
    /\ ix_call.probe_indices = <<1, 1>>
    /\ ix_call.count_probe_batch = 3
    /\ ix_result.kind = "Ok"
    /\ ix_result.probe_indices = <<0, 1, 1, 2>>

\* C22: append_probe_indices_in_order, for null-free inputs whose probe
\* indices are non-decreasing and below count, returns the input pairs in
\* their order and, in ascending position, one pair (null, v) for exactly
\* the probe rows v of [0, count) that no input pair names: the probe array
\* returned is non-decreasing and covers [0, count), and both arrays are as
\* long as the input pairs plus the unmatched rows.
C22_PairsInOrderWithNulls ==
    (Returned("append_probe_indices_in_order") /\ LookupInput) =>
        /\ ix_result.kind = "Ok"
        /\ LET out == Pairs(ix_result.build_indices, ix_result.probe_indices)
               unmatched == Unmatched(ix_call.count_probe_batch,
                                      ix_call.probe_indices)
           IN  /\ SelectSeq(out, LAMBDA x : x[1] # Null)
                     = Pairs(ix_call.build_indices, ix_call.probe_indices)
               /\ SelectSeq(out, LAMBDA x : x[1] = Null)
                     = Pairs(Nulls(Len(unmatched)), unmatched)
               /\ Len(ix_result.probe_indices)
                     = Len(ix_call.probe_indices) + Len(unmatched)
               /\ Len(ix_result.build_indices) = Len(ix_result.probe_indices)
        /\ NonDecreasing(ix_result.probe_indices)
        /\ Elems(ix_result.probe_indices)
              = 0..(ix_call.count_probe_batch - 1)

\* the pairs (0, 1), (1, 1) of a batch of three rows came back between the
\* unmatched rows 0 and 2
C22_Witness ==
    /\ Returned("append_probe_indices_in_order")
    /\ LookupInput
    /\ ix_call.build_indices = <<0, 1>>
    /\ ix_call.probe_indices = <<1, 1>>
    /\ ix_call.count_probe_batch = 3
    /\ ix_result = OkIndices(<<Null, 0, 1, Null>>, <<0, 1, 1, 2>>)

\* C23: for Right, a null slot anywhere in build_idx or probe_idx makes the
\* adjustment return an Internal error and no index array.
C23_NullIsInternalError ==
    (/\ RightCall
     /\ Null \in Elems(ix_call.build_indices) \cup Elems(ix_call.probe_indices))
        => ix_result = Internal("Error on probe indices calculation")

\* the null sat in the last slot of the build array, after a pair without
\* a null
C23_Witness ==
    /\ RightCall
    /\ Len(ix_call.build_indices) = 2
    /\ ix_call.build_indices[1] # Null
    /\ ix_call.build_indices[2] = Null
    /\ Null \notin Elems(ix_call.probe_indices)
    /\ ix_result.kind = "Internal"

BuildOuterCall == ix_call.op = "calculate_build_outer_indices_by_join_type"

\* the anti and the semi indices of the arguments of the call
PruningAnti ==
    get_pruning_anti_indices(ix_call.prune_length, ix_call.deleted_offset,
                             ix_call.visited_rows)
PruningSemi ==
    get_pruning_semi_indices(ix_call.prune_length, ix_call.deleted_offset,
                             ix_call.visited_rows)

\* C24: for the same prune_length, deleted_offset and visited set,
\* get_pruning_anti_indices and get_pruning_semi_indices partition
\* [0, prune_length): they are disjoint, together they hold every index of
\* the range, each once, and v is a semi index exactly when
\* v + deleted_offset is in the visited set.
C24_AntiSemiPartition ==
    BuildOuterCall =>
        /\ Elems(PruningAnti) \cap Elems(PruningSemi) = {}
        /\ Elems(PruningAnti) \cup Elems(PruningSemi)
              = 0..(ix_call.prune_length - 1)
        /\ StrictlyIncreasing(PruningAnti)
        /\ StrictlyIncreasing(PruningSemi)
        /\ \A v \in 0..(ix_call.prune_length - 1) :
              v \in Elems(PruningSemi)
                  <=> (v + ix_call.deleted_offset) \in ix_call.visited_rows

\* one row was pruned before; of the two rows pruned now, row 1 is visited
\* (as row 2 of the buffer) and row 0 is not, though 0 is in the visited set
C24_Witness ==
    /\ Returned("calculate_build_outer_indices_by_join_type")
    /\ ix_call.join_type = "LeftSemi"
    /\ ix_call.prune_length = 2
    /\ ix_call.deleted_offset = 1
    /\ ix_call.visited_rows = {0, 2}
    /\ PruningAnti = <<0>>
    /\ ix_result.build_indices = <<1>>

\* C25: calculate_build_outer_indices_by_join_type returns, for Left,
\* LeftAnti and Full, the anti indices and, for LeftSemi, the semi indices,
\* each with an all-null probe array of the same length; for Inner, Right,
\* RightSemi and RightAnti it returns an Internal error.
C25_BuildOuterByJoinType ==
    Returned("calculate_build_outer_indices_by_join_type") =>
        /\ ix_call.join_type \in {"Left", "LeftAnti", "Full"} =>
              ix_result = OkIndices(PruningAnti, Nulls(Len(PruningAnti)))
        /\ ix_call.join_type = "LeftSemi" =>
              ix_result = OkIndices(PruningSemi, Nulls(Len(PruningSemi)))
        /\ ix_call.join_type \in {"Inner", "Right", "RightSemi", "RightAnti"}
              => ix_result = Internal("Given join type is not supported")

\* LeftAnti got the two unvisited rows with two null probe ids
C25_Witness ==
    /\ Returned("calculate_build_outer_indices_by_join_type")
    /\ ix_call.join_type = "LeftAnti"
    /\ ix_call.visited_rows = {0}
    /\ ix_call.deleted_offset = 1
    /\ ix_result = OkIndices(<<0, 1>>, <<Null, Null>>)

\* the index arrays of the call have no null slot and every probe index is
\* a row of the probe batch
NullFreeInput ==
    /\ Null \notin Elems(ix_call.build_indices)
    /\ Null \notin Elems(ix_call.probe_indices)
    /\ \A k \in DOMAIN ix_call.probe_indices :
          ix_call.probe_indices[k] < ix_call.count_probe_batch

\* C26: for Full the adjustment returns the input pairs followed by one
\* pair (null, v) for each v of [0, count) that is not in probe_idx: the
\* arrays returned have the same length, every probe row occurs at least
\* once, and a null build id occurs only with a probe row without a match.
C26_FullAppendsUnmatched ==
    (/\ Returned("adjust_probe_side_indices_by_join_type")
     /\ ix_call.join_type = "Full"
     /\ NullFreeInput) =>
        LET unmatched == Unmatched(ix_call.count_probe_batch,
                                   ix_call.probe_indices)
        IN  /\ ix_result = OkIndices(
                   ix_call.build_indices \o Nulls(Len(unmatched)),
                   ix_call.probe_indices \o unmatched)
            /\ Len(ix_result.build_indices) = Len(ix_result.probe_indices)
            /\ \A v \in 0..(ix_call.count_probe_batch - 1) :
                  Count(ix_result.probe_indices, v) >= 1
            /\ \A k \in DOMAIN ix_result.build_indices :
                  ix_result.build_indices[k] = Null =>
                      ix_result.probe_indices[k]
                          \notin Elems(ix_call.probe_indices)

\* the pairs of probe rows 2 and 0, in that order, were followed by the
\* unmatched row 1
C26_Witness ==
    /\ Returned("adjust_probe_side_indices_by_join_type")
    /\ ix_call.join_type = "Full"
    /\ ix_call.probe_indices = <<2, 0>>
    /\ ix_call.count_probe_batch = 3
    /\ ix_result.kind = "Ok"
    /\ ix_result.probe_indices = <<2, 0, 1>>
    /\ ix_result.build_indices[3] = Null
    /\ Null \notin Elems(ix_call.build_indices)

\* the probe arrays RightSemi and RightAnti return for the arguments of the
\* call
RightSemiProbe ==
    adjust_probe_side_indices_by_join_type(
        ix_call.build_indices, ix_call.probe_indices,
        ix_call.count_probe_batch, "RightSemi").probe_indices
RightAntiProbe ==
    adjust_probe_side_indices_by_join_type(
        ix_call.build_indices, ix_call.probe_indices,
        ix_call.count_probe_batch, "RightAnti").probe_indices

\* C27: for the same input, the probe array of RightSemi (the distinct probe
\* rows hit) and the probe array of RightAnti (the rows not hit) are free of
\* duplicates, disjoint, and together cover [0, count); both return
\* build_idx unchanged.
C27_RightSemiAntiPartition ==
    (/\ Returned("adjust_probe_side_indices_by_join_type")
     /\ ix_call.join_type \in {"RightSemi", "RightAnti"}
     /\ NullFreeInput) =>
        /\ ix_result.kind = "Ok"
        /\ ix_result.probe_indices
              = IF ix_call.join_type = "RightSemi" THEN RightSemiProbe
                ELSE RightAntiProbe
        /\ Elems(RightSemiProbe) = Elems(ix_call.probe_indices)
        /\ \A v \in 0..(ix_call.count_probe_batch - 1) :
              /\ Count(RightSemiProbe, v) + Count(RightAntiProbe, v) = 1
              /\ Count(RightSemiProbe, v) = 1
                    <=> v \in Elems(ix_call.probe_indices)
        /\ Elems(RightSemiProbe) \cup Elems(RightAntiProbe)
              = 0..(ix_call.count_probe_batch - 1)
        /\ ix_result.build_indices = ix_call.build_indices

\* probe row 1 was hit twice: RightSemi returned it once, with both build ids
C27_Witness ==
    /\ Returned("adjust_probe_side_indices_by_join_type")
    /\ ix_call.join_type = "RightSemi"
    /\ ix_call.probe_indices = <<1, 1>>
    /\ ix_call.count_probe_batch = 3
    /\ ix_result.probe_indices = <<1>>
    /\ Len(ix_result.build_indices) = 2
    /\ RightAntiProbe = <<0, 2>>

(***************************************************************************)
(* Filter expression intervals: the functions and their calls.             *)
(***************************************************************************)
\* a SortedFilterExpr as constructed; its expression on the intermediate
\* batch is the first column of that batch
SortedFilterExpr(descending) == [order |-> [descending |-> descending], interval |-> Interval(make_unbounded, make_unbounded), intermediate_batch_filter_expr |-> [index |-> 0]]

\* update_filter_expr_interval on a batch of one row
update_filter_expr_interval(batch, sorted_expr) ==
    LET value == batch[1]
        unbounded == make_unbounded
    IN  [sorted_expr EXCEPT !.interval =
            IF sorted_expr.order.descending
            THEN Interval(unbounded, IntervalBound(value, FALSE))
            ELSE Interval(IntervalBound(value, FALSE), unbounded)]

calculate_filter_expr_intervals(build_input_buffer, build_sorted_filter_expr, probe_rows, probe_sorted_filter_expr) ==
    IF Len(build_input_buffer) = 0 \/ Len(probe_rows) = 0
    THEN [build |-> build_sorted_filter_expr,
          probe |-> probe_sorted_filter_expr]
    ELSE [build |-> update_filter_expr_interval(
                        SubSeq(build_input_buffer, 1, 1),
                        build_sorted_filter_expr),
          probe |-> update_filter_expr_interval(
                        SubSeq(probe_rows, Len(probe_rows), Len(probe_rows)),
                        probe_sorted_filter_expr)]

\* the batches of n rows: any values, a null anywhere
Batches(n) == [1..n -> Values \cup {NullScalar}]

\* the (sort expr, interval) pairs the window check can be given
ShrunkIntervals ==
    {[options |-> [descending |-> d],
      interval |-> Interval(IntervalBound(ScalarValue(b[1]), FALSE),
                            IntervalBound(ScalarValue(b[2]), FALSE))] :
        d \in BOOLEAN,
        b \in {x \in (0..MaxIntervalBound) \X (0..MaxIntervalBound) :
                  x[1] <= x[2]}}

\* PhysicalExpr::evaluate of a column of the intermediate batch, a batch of
\* one row: the value of that row in the column
evaluate(expr, intermediate_batch) == intermediate_batch[1][expr.index + 1]

\* mutant: only the first expression is evaluated
is_batch_suitable_interval_calculation_FirstExpr(probe_sorted_filter_exprs, batch) ==
    IF Len(batch) = 0
    THEN [value |-> FALSE, evaluated |-> 0]
    ELSE LET intermediate_batch == SubSeq(batch, Len(batch), Len(batch))
             latest_value(i) ==
                 evaluate(probe_sorted_filter_exprs[i].intermediate_batch_filter_expr,
                          intermediate_batch)
         IN  [value |-> \A i \in DOMAIN probe_sorted_filter_exprs :
                            i = 1 => ~latest_value(i).is_null,
              evaluated |-> Len(probe_sorted_filter_exprs)]

\* is_batch_suitable_interval_calculation: what it returns and the number of
\* expressions it has evaluated; each expression is evaluated on the batch
\* of the last row
is_batch_suitable_interval_calculation(probe_sorted_filter_exprs, batch) ==
    IF Len(batch) = 0
    THEN [value |-> FALSE, evaluated |-> 0]
    ELSE LET intermediate_batch == SubSeq(batch, Len(batch), Len(batch))
             latest_value(i) ==
                 evaluate(probe_sorted_filter_exprs[i].intermediate_batch_filter_expr,
                          intermediate_batch)
         IN  [value |-> \A i \in DOMAIN probe_sorted_filter_exprs :
                            ~latest_value(i).is_null,
              evaluated |-> Len(probe_sorted_filter_exprs)]

\* the calls on a batch of n rows of MaxFilterColumns columns, a value or a
\* null in each column, with m probe sorted filter exprs, each expression a
\* column of the batch
SuitableCalls(n, m) ==
    [op : {"is_batch_suitable_interval_calculation"},
     batch : [1..n -> [1..MaxFilterColumns -> {ScalarValue(0), NullScalar}]],
     probe_sorted_filter_exprs :
         [1..m -> {[SortedFilterExpr(FALSE) EXCEPT
                       !.intermediate_batch_filter_expr.index = c] :
                      c \in 0..(MaxFilterColumns - 1)}]]

\* the calls on a probe batch of n rows
UpdateBoundsCalls(n) ==
    [op : {"update_filter_expr_bounds"},
     batch : Batches(n),
     descending : BOOLEAN]

\* the calls on a build buffer of n rows and a probe batch of m rows
CalculateIntervalsCalls(n, m) ==
    [op : {"calculate_filter_expr_intervals"},
     build_input_buffer : Batches(n),
     build_descending : BOOLEAN,
     batch : Batches(m),
     descending : BOOLEAN]

\* the calls on a build batch of n rows with m (sort expr, interval) pairs
CheckCalls(n, m) ==
    [op : {"check_if_sliding_window_condition_is_met"},
     incoming_build_batch : Batches(n),
     intervals : [1..m -> ShrunkIntervals]]

\* a call is about to be made; update_filter_expr_bounds is given probe
\* batches of a row more, so that a batch has rows between its first and
\* its last
IvInit ==
    /\ \/ \E n \in 1..(MaxBatchRows + 1) : iv_call \in UpdateBoundsCalls(n)
       \/ \E n \in 0..MaxBatchRows, m \in 0..MaxBatchRows :
             iv_call \in CalculateIntervalsCalls(n, m)
       \/ \E n \in 1..MaxBatchRows, m \in 0..MaxIntervals :
             iv_call \in CheckCalls(n, m)
       \/ \E n \in 0..MaxBatchRows, m \in 0..MaxIntervals :
             iv_call \in SuitableCalls(n, m)
    /\ iv_result = [kind |-> "none"]

UpdateBounds ==
    /\ iv_call.op = "update_filter_expr_bounds"
    /\ iv_result.kind = "none"
    /\ iv_result' = [kind |-> "Ok",
                     intervals |-> update_filter_expr_bounds(
                                       iv_call.batch, iv_call.descending)]
    /\ UNCHANGED iv_call

CalculateIntervals ==
    /\ iv_call.op = "calculate_filter_expr_intervals"
    /\ iv_result.kind = "none"
    /\ iv_result' = [kind |-> "Ok",
                     exprs |-> calculate_filter_expr_intervals(
                                   iv_call.build_input_buffer,
                                   SortedFilterExpr(iv_call.build_descending),
                                   iv_call.batch,
                                   SortedFilterExpr(iv_call.descending))]
    /\ UNCHANGED iv_call

CheckWindow ==
    /\ iv_call.op = "check_if_sliding_window_condition_is_met"
    /\ iv_result.kind = "none"
    /\ iv_result' = [kind |-> "Ok",
                     met |-> check_if_sliding_window_condition_is_met(
                                 iv_call.incoming_build_batch,
                                 iv_call.intervals)]
    /\ UNCHANGED iv_call

IsBatchSuitable ==
    /\ iv_call.op = "is_batch_suitable_interval_calculation"
    /\ iv_result.kind = "none"
    /\ iv_result' = [kind |-> "Ok",
                     suitable |-> is_batch_suitable_interval_calculation(
                                      iv_call.probe_sorted_filter_exprs,
                                      iv_call.batch)]
    /\ UNCHANGED iv_call

IvNext ==
    \/ IsBatchSuitable /\ UNCHANGED <<rc_vars, ej_vars, hm_vars, sw_vars, ix_vars>>
    \/ UpdateBounds /\ UNCHANGED <<rc_vars, ej_vars, hm_vars, sw_vars, ix_vars>>
    \/ CalculateIntervals /\ UNCHANGED <<rc_vars, ej_vars, hm_vars, sw_vars, ix_vars>>
    \/ CheckWindow /\ UNCHANGED <<rc_vars, ej_vars, hm_vars, sw_vars, ix_vars>>

IntervalInit == IvInit /\ RcInit /\ EjIdle /\ HmIdle /\ SwIdle /\ IxIdle

IntervalSpec == IntervalInit /\ [][IvNext]_vars

(***************************************************************************)
(* Filter expression intervals: properties.                                *)
(***************************************************************************)
IvReturned(op) == iv_call.op = op /\ iv_result.kind = "Ok"

FirstRow(batch) == batch[1]
LastRow(batch) == batch[Len(batch)]

\* C28: after update_filter_expr_bounds on a non-empty probe batch the
\* endpoints of the probe-side interval are the expression's values on row 0
\* and on the last row, [first, last] for an ascending and [last, first] for
\* a descending sort; no other row of the batch has a part in it.
C28_ProbeEndpoints ==
    IvReturned("update_filter_expr_bounds") =>
        LET probe_interval == iv_result.intervals.probe IN
        /\ ~iv_call.descending =>
              /\ probe_interval.lower.value = FirstRow(iv_call.batch)
              /\ probe_interval.upper.value = LastRow(iv_call.batch)
        /\ iv_call.descending =>
              /\ probe_interval.lower.value = LastRow(iv_call.batch)
              /\ probe_interval.upper.value = FirstRow(iv_call.batch)
        /\ probe_interval = update_filter_expr_bounds(
                       <<FirstRow(iv_call.batch), LastRow(iv_call.batch)>>,
                       iv_call.descending).probe

\* a descending batch of three rows, the one in the middle a null
C28_Witness ==
    /\ IvReturned("update_filter_expr_bounds")
    /\ iv_call.descending
    /\ iv_call.batch = <<ScalarValue(2), NullScalar, ScalarValue(1)>>
    /\ iv_result.intervals.probe.lower.value = ScalarValue(1)
    /\ iv_result.intervals.probe.upper.value = ScalarValue(2)

BothSidesHaveRows ==
    /\ IvReturned("calculate_filter_expr_intervals")
    /\ iv_call.build_input_buffer # <<>>
    /\ iv_call.batch # <<>>

\* the interval from a value upwards and the one up to a value
From(value) == Interval(IntervalBound(value, FALSE), make_unbounded)
UpTo(value) == Interval(make_unbounded, IntervalBound(value, FALSE))

BuildIntervalFromFirstRow ==
    iv_result.exprs.build.interval
        = IF iv_call.build_descending
          THEN UpTo(FirstRow(iv_call.build_input_buffer))
          ELSE From(FirstRow(iv_call.build_input_buffer))

\* C29: with rows on both sides, calculate_filter_expr_intervals
\* sets the build interval to [first_row_value, +inf] (ascending) or
\* [-inf, first_row_value] (descending), from row 0 of the build buffer, and
\* the probe interval to [-inf, last_row_value] (ascending) or
\* [last_row_value, +inf] (descending), from the last row of the probe batch.
C29_ProbeUpToLastRow ==
    BothSidesHaveRows =>
        /\ BuildIntervalFromFirstRow
        /\ iv_result.exprs.probe.interval
              = IF iv_call.descending
                THEN From(LastRow(iv_call.batch))
                ELSE UpTo(LastRow(iv_call.batch))

C31_SuitableOnLastRow ==
    IvReturned("is_batch_suitable_interval_calculation") =>
        LET exprs == iv_call.probe_sorted_filter_exprs
            column(i) == exprs[i].intermediate_batch_filter_expr.index + 1
        IN  /\ iv_result.suitable.value
                  <=> /\ Len(iv_call.batch) >= 1
                      /\ \A i \in DOMAIN exprs :
                            ~LastRow(iv_call.batch)[column(i)].is_null
            /\ Len(iv_call.batch) = 0 => iv_result.suitable.evaluated = 0
            /\ Len(iv_call.batch) >= 1 =>
                  iv_result.suitable.value
                     = is_batch_suitable_interval_calculation(
                           exprs, <<LastRow(iv_call.batch)>>).value

\* two expressions on two columns; the first row is null in both columns,
\* on the last row the first expression is not null and the second is:
\* both were evaluated and the batch is not suitable
C31_Witness ==
    /\ IvReturned("is_batch_suitable_interval_calculation")
    /\ Len(iv_call.probe_sorted_filter_exprs) = 2
    /\ iv_call.probe_sorted_filter_exprs[1].intermediate_batch_filter_expr.index = 0
    /\ iv_call.probe_sorted_filter_exprs[2].intermediate_batch_filter_expr.index = 1
    /\ Len(iv_call.batch) = 2
    /\ \A c \in DOMAIN iv_call.batch[1] : iv_call.batch[1][c].is_null
    /\ ~iv_call.batch[2][1].is_null
    /\ iv_call.batch[2][2].is_null
    /\ ~iv_result.suitable.value
    /\ iv_result.suitable.evaluated = 2

\* the build side has the interval from null to null, both bounds open
BuildIntervalIsNull ==
    /\ iv_result.intervals.build.lower = IntervalBound(NullScalar, TRUE)
    /\ iv_result.intervals.build.upper = IntervalBound(NullScalar, TRUE)

\* C32 as claimed: in the intervals update_filter_expr_bounds writes, both
\* endpoints of the probe-side interval are open, and the build side gets
\* the point-null interval (lower = upper = null) whatever the call.
C32_ProbeEndpointsOpen ==
    IvReturned("update_filter_expr_bounds") =>
        /\ iv_result.intervals.probe.lower.open
        /\ iv_result.intervals.probe.upper.open
        /\ BuildIntervalIsNull

\* C32 amended: both endpoints of the probe-side interval are closed (the
\* bounds are made with open = false), so the interval holds the values of
\* the first and of the last row; the build side gets the point-null
\* interval, both of its bounds open, whatever the call.
C32_ProbeEndpointsClosed ==
    IvReturned("update_filter_expr_bounds") =>
        /\ ~iv_result.intervals.probe.lower.open
        /\ ~iv_result.intervals.probe.upper.open
        /\ BuildIntervalIsNull

\* an ascending batch 0, 1: the probe interval is [0, 1], closed
C32_Witness ==
    /\ IvReturned("update_filter_expr_bounds")
    /\ ~iv_call.descending
    /\ iv_call.batch = <<ScalarValue(0), ScalarValue(1)>>
    /\ iv_result.intervals.probe
          = Interval(IntervalBound(ScalarValue(0), FALSE),
                     IntervalBound(ScalarValue(1), FALSE))
    /\ iv_result.intervals.build.lower.open

\* C38: for every null-free input of append_probe_indices_in_order, in
\* whatever order its probe indices are, a probe row that an input pair names
\* is never returned with a null build index as well, and no row of
\* [0, count) without a match is returned more than once.
C38_AnyOrderNoDuplicates ==
    (Returned("append_probe_indices_in_order") /\ NullFreeInput)
        => /\ ix_result.kind = "Ok"
           /\ LET out == Pairs(ix_result.build_indices, ix_result.probe_indices)
              IN  \A v \in 0..(MaxProbeCount - 1) :
                     /\ v \in Elems(ix_call.probe_indices) =>
                           <<Null, v>> \notin Elems(out)
                     /\ (/\ v \notin Elems(ix_call.probe_indices)
                         /\ v < ix_call.count_probe_batch) =>
                           Count(out, <<Null, v>>) <= 1

\* C39: with an empty list of shrunk intervals
\* check_if_sliding_window_condition_is_met returns true for every build
\* batch that has a row, a null on its last row included: when no build-side
\* expression can be pruned, the window is found complete on the first build
\* batch that is checked.
C39_NoIntervalsIsMet ==
    (/\ IvReturned("check_if_sliding_window_condition_is_met")
     /\ iv_call.intervals = <<>>
     /\ Len(iv_call.incoming_build_batch) > 0)
        => /\ iv_result.kind = "Ok"
           /\ iv_result.met = TRUE

\* a build batch that ends on a null, checked against no interval: true
C39_Witness ==
    /\ IvReturned("check_if_sliding_window_condition_is_met")
    /\ iv_call.intervals = <<>>
    /\ iv_call.incoming_build_batch = <<ScalarValue(1), NullScalar>>
    /\ iv_result.met

\* C40: record_visited_indices and the pruning index functions agree on
\* the offset: after the indices are recorded with an offset, the semi
\* indices taken with that offset hold every recorded index below
\* prune_length and the anti indices hold none of them;
\* record_visited_indices adds the recorded rows to visited and removes
\* nothing.
C40_RecordAndPruneAgree ==
    Returned("record_visited_indices") =>
        /\ \A k \in DOMAIN ix_call.indices :
              ix_call.indices[k].value < ix_call.prune_length =>
                  /\ ix_call.indices[k].value \in Elems(ix_result.semi)
                  /\ ix_call.indices[k].value \notin Elems(ix_result.anti)
        /\ ix_call.visited \subseteq ix_result.visited
        /\ \A row \in ix_result.visited \ ix_call.visited :
              \E k \in DOMAIN ix_call.indices :
                  row = ix_call.indices[k].value + ix_call.offset
        /\ Elems(ix_result.semi) \cup Elems(ix_result.anti)
              = 0..(ix_call.prune_length - 1)
        /\ Elems(ix_result.semi) \cap Elems(ix_result.anti) = {}

\* rows 0 and 2 were recorded with offset 1 into a set that held row 0; of
\* the two rows pruned, row 0 is visited and row 1 is not
C40_Witness ==
    /\ Returned("record_visited_indices")
    /\ ix_call.visited = {0}
    /\ ix_call.offset = 1
    /\ Len(ix_call.indices) = 2
    /\ ix_call.indices[1].value = 0
    /\ ix_call.indices[2].value = 2
    /\ ix_call.prune_length = 2
    /\ ix_result.visited = {0, 1, 3}
    /\ ix_result.semi = <<0>>
    /\ ix_result.anti = <<1>>

(***************************************************************************)
(* Filter input order: expressions, the join filter, the functions.        *)
(***************************************************************************)
Column(name, index) == [k |-> "Column", name |-> name, index |-> index, op |-> "", l |-> <<>>, r |-> <<>>]
BinaryExpr(left, op, right) == [k |-> "BinaryExpr", name |-> "", index |-> 0, op |-> op, l |-> left, r |-> right]
Literal(value) == [k |-> "Literal", name |-> "", index |-> value, op |-> "", l |-> <<>>, r |-> <<>>]

PhysicalSortExpr(expr, descending) == [expr |-> expr, options |-> [descending |-> descending]]
ColumnIndex(index, side) == [index |-> index, side |-> side]
JoinFilter_new(expression, column_indices, schema) == [expression |-> expression, column_indices |-> column_indices, schema |-> schema]

JoinSides == {"Left", "Right"}

\* the schema of a child: two fields
ChildSchema(side) == IF side = "Left" THEN <<"la1", "la2">> ELSE <<"ra1", "ra2">>

\* the schema of a filter of n columns: the fields are named by position
FilterSchema(n) == [i \in 1..n |-> ToString(i - 1)]

\* PhysicalExpr::children
children(expr) == IF expr.k = "BinaryExpr" THEN <<expr.l, expr.r>> ELSE <<>>

\* mutant: the reference is looked for at the root only
check_filter_expr_contains_sort_information_RootOnly(expr, reference) ==
    expr = reference

RECURSIVE check_filter_expr_contains_sort_information(_, _)
check_filter_expr_contains_sort_information(expr, reference) ==
    \/ expr = reference
    \/ \E i \in DOMAIN children(expr) :
          check_filter_expr_contains_sort_information(children(expr)[i],
                                                      reference)

\* Schema::index_of, counted from 0
index_of(name, schema) ==
    (CHOOSE i \in DOMAIN schema :
        /\ schema[i] = name
        /\ \A j \in 1..(i - 1) : schema[j] # name) - 1

\* Column::new_with_schema
new_with_schema(name, schema) == Column(name, index_of(name, schema))

\* the map from the columns of the child to the columns of the filter; a
\* later entry of the column indices replaces an earlier one of its column
map_origin_col_to_filter_col(filter, schema, side) ==
    LET mine == {i \in DOMAIN filter.column_indices :
                    filter.column_indices[i].side = side}
        main_col(i) ==
            new_with_schema(schema[filter.column_indices[i].index + 1], schema)
        last(col) ==
            CHOOSE i \in mine :
                /\ main_col(i) = col
                /\ \A j \in mine : main_col(j) = col => j <= i
    IN  [col \in {main_col(i) : i \in mine} |->
            Column(filter.schema[last(col)], last(col) - 1)]

\* the schema of the filter columns of a side, in their order
get_filter_representation_schema_of_build_side(filter_schema, column_indices, side) ==
    SelectSeq([i \in DOMAIN column_indices |->
                  IF column_indices[i].side = side THEN filter_schema[i]
                  ELSE ""],
              LAMBDA name : name # "")

RECURSIVE collect_columns(_)
collect_columns(expr) ==
    IF expr.k = "Column" THEN {expr}
    ELSE UNION {collect_columns(children(expr)[i]) :
                   i \in DOMAIN children(expr)}

\* convert_filter_columns: a column becomes its filter column, if it has one
convert_filter_columns(input, column_map) ==
    IF input.k = "Column" /\ input \in DOMAIN column_map
    THEN column_map[input]
    ELSE input

\* expr.transform_up with convert_filter_columns
RECURSIVE to_filter_columns(_, _)
to_filter_columns(expr, column_map) ==
    IF expr.k = "BinaryExpr"
    THEN convert_filter_columns(
             BinaryExpr(to_filter_columns(expr.l, column_map), expr.op,
                        to_filter_columns(expr.r, column_map)),
             column_map)
    ELSE convert_filter_columns(expr, column_map)

\* transform_up onto the columns of the intermediate schema
RECURSIVE to_intermediate_columns(_, _)
to_intermediate_columns(expr, intermediate_schema) ==
    IF expr.k = "BinaryExpr"
    THEN BinaryExpr(to_intermediate_columns(expr.l, intermediate_schema),
                    expr.op,
                    to_intermediate_columns(expr.r, intermediate_schema))
    ELSE IF expr.k = "Column"
    THEN new_with_schema(expr.name, intermediate_schema)
    ELSE expr

\* the sort exprs looked at: the one given, the leading ones of the ordering
\* equivalence class, and for each column among them the columns equal to it
additional_sort_exprs(sort_expr, equivalence_properties, ordering_equivalence_properties) ==
    LET global == {sort_expr}
                    \cup {ordering[1] : ordering \in ordering_equivalence_properties}
        temp_sort_exprs ==
            {[expr |-> col, options |-> global_sort.options] :
                <<global_sort, col>> \in
                    {x \in global \X UNION equivalence_properties :
                        /\ x[1].expr.k = "Column"
                        /\ \E class \in equivalence_properties :
                              x[1].expr \in class /\ x[2] \in class}}
    IN  global \cup temp_sort_exprs

\* build_filter_input_order: the SortedFilterExprs it returns, as a set (the
\* order of the vector is the one of a HashSet)
build_filter_input_order(side, filter, schema, sort_expr, equivalence_properties, ordering_equivalence_properties) ==
    LET column_map == map_origin_col_to_filter_col(filter, schema, side)
        intermediate_schema ==
            get_filter_representation_schema_of_build_side(
                filter.schema, filter.column_indices, side)
        accepted ==
            {x \in additional_sort_exprs(sort_expr, equivalence_properties,
                                         ordering_equivalence_properties) :
                /\ collect_columns(x.expr) \subseteq DOMAIN column_map
                /\ check_filter_expr_contains_sort_information(
                       filter.expression,
                       to_filter_columns(x.expr, column_map))}
    IN  {[filter_expr |-> [expr |-> to_filter_columns(x.expr, column_map),
                           options |-> x.options],
          intermediate_batch_filter_expr |->
              to_intermediate_columns(to_filter_columns(x.expr, column_map),
                                      intermediate_schema)] : x \in accepted}

(***************************************************************************)
(* Filter input order: the calls and their action.                         *)
(***************************************************************************)
\* a column, or two different columns added or subtracted
ExprsOver(columns) ==
    columns \cup {BinaryExpr(x[1], op, x[2]) :
                     x \in {y \in columns \X columns : y[1] # y[2]},
                     op \in {"+", "-"}}

ChildColumns(side) ==
    {new_with_schema(ChildSchema(side)[i], ChildSchema(side)) :
        i \in DOMAIN ChildSchema(side)}

FilterColumns(n) == {Column(FilterSchema(n)[i], i - 1) : i \in 1..n}

\* the filters of n columns: an expression over them compared with a literal
JoinFilters(n) ==
    {JoinFilter_new(BinaryExpr(e, ">", Literal(10)), t, FilterSchema(n)) :
        e \in ExprsOver(FilterColumns(n)),
        t \in [1..n -> {ColumnIndex(i, side) : i \in 0..1, side \in JoinSides}]}

\* the equivalence classes of a child: none, or its two columns are equal
EquivalenceProperties(side) == {{}, {ChildColumns(side)}}

\* the ordering equivalence class of a child: none, or one more ordering
\* that starts with a column
OrderingEquivalenceProperties(side) ==
    {{}} \cup {{<<PhysicalSortExpr(col, FALSE)>>} : col \in ChildColumns(side)}

\* the calls on a filter of n columns for a side
FilterOrderCalls(n, side) ==
    [op : {"build_filter_input_order"},
     side : {side},
     filter : JoinFilters(n),
     schema : {ChildSchema(side)},
     sort_expr : {PhysicalSortExpr(e, d) :
                     e \in ExprsOver(ChildColumns(side)), d \in BOOLEAN},
     equivalence_properties : EquivalenceProperties(side),
     ordering_equivalence_properties : OrderingEquivalenceProperties(side)]

\* a call is about to be made
FoInit ==
    /\ \E n \in 1..MaxFilterColumns, side \in JoinSides :
          iv_call \in FilterOrderCalls(n, side)
    /\ iv_result = [kind |-> "none"]

BuildFilterInputOrder ==
    /\ iv_call.op = "build_filter_input_order"
    /\ iv_result.kind = "none"
    /\ iv_result' = [kind |-> "Ok",
                     sorted_filter_exprs |->
                         build_filter_input_order(
                             iv_call.side, iv_call.filter, iv_call.schema,
                             iv_call.sort_expr, iv_call.equivalence_properties,
                             iv_call.ordering_equivalence_properties)]
    /\ UNCHANGED iv_call

FoNext ==
    BuildFilterInputOrder /\ UNCHANGED <<rc_vars, ej_vars, hm_vars, sw_vars, ix_vars>>

FilterOrderInit == FoInit /\ RcInit /\ EjIdle /\ HmIdle /\ SwIdle /\ IxIdle

FilterOrderSpec == FilterOrderInit /\ [][FoNext]_vars

(***************************************************************************)
(* Filter input order: properties.                                         *)
(***************************************************************************)
RECURSIVE Subtrees(_)
Subtrees(expr) ==
    {expr} \cup UNION {Subtrees(children(expr)[i]) : i \in DOMAIN children(expr)}

\* the columns of the child that the column indices of the filter name for
\* the side of the call
MappedColumns ==
    {col \in ChildColumns(iv_call.side) :
        \E i \in DOMAIN iv_call.filter.column_indices :
            iv_call.filter.column_indices[i] = ColumnIndex(col.index, iv_call.side)}

\* a candidate sort expr, written on the columns of the filter
Rewritten(x) ==
    [expr |-> to_filter_columns(
                  x.expr,
                  map_origin_col_to_filter_col(iv_call.filter, iv_call.schema,
                                               iv_call.side)),
     options |-> x.options]

Candidates ==
    additional_sort_exprs(iv_call.sort_expr, iv_call.equivalence_properties,
                          iv_call.ordering_equivalence_properties)

InFilter(x) ==
    /\ collect_columns(x.expr) \subseteq MappedColumns
    /\ Rewritten(x).expr \in Subtrees(iv_call.filter.expression)

\* the filter holds la1 - la2: sorts on la1 + la2 and on la2 - la1 yield nothing
OtherExprYieldsNothing ==
    (/\ iv_call.op = "build_filter_input_order"
     /\ iv_result.kind = "Ok"
     /\ iv_call.side = "Left"
     /\ iv_call.filter.column_indices
           = <<ColumnIndex(0, "Left"), ColumnIndex(1, "Left")>>
     /\ iv_call.filter.expression
           = BinaryExpr(BinaryExpr(Column("0", 0), "-", Column("1", 1)), ">",
                        Literal(10))
     /\ iv_call.sort_expr.expr
           \in {BinaryExpr(Column("la1", 0), "+", Column("la2", 1)),
                BinaryExpr(Column("la2", 1), "-", Column("la1", 0))}
     /\ iv_call.ordering_equivalence_properties = {})
        => iv_result.sorted_filter_exprs = {}

\* C33: build_filter_input_order emits a SortedFilterExpr for a candidate
\* sort expr exactly when every column of the candidate is mapped by the
\* column indices of the filter for the side asked for and the candidate,
\* rewritten to the columns of the filter, equals the filter expression or
\* one of its subtrees; it emits nothing else, so a sort on a column that is
\* not in the filter, or on another expression over the columns of the
\* filter, yields nothing
C33_EmitsIffInFilter ==
    (iv_call.op = "build_filter_input_order" /\ iv_result.kind = "Ok") =>
        /\ \A x \in Candidates :
              (\E s \in iv_result.sorted_filter_exprs :
                  s.filter_expr = Rewritten(x)) <=> InFilter(x)
        /\ \A s \in iv_result.sorted_filter_exprs :
              \E x \in Candidates : InFilter(x) /\ s.filter_expr = Rewritten(x)
        /\ Cardinality(iv_result.sorted_filter_exprs)
              = Cardinality({x \in Candidates : InFilter(x)})
        /\ OtherExprYieldsNothing

\* the filter holds la1 - la2: a sort on la1 - la2 is emitted, written on the
\* columns of the filter
C33_Witness ==
    /\ iv_call.op = "build_filter_input_order"
    /\ iv_result.kind = "Ok"
    /\ iv_call.side = "Left"
    /\ iv_call.filter.column_indices
          = <<ColumnIndex(0, "Left"), ColumnIndex(1, "Left")>>
    /\ iv_call.filter.expression
          = BinaryExpr(BinaryExpr(Column("0", 0), "-", Column("1", 1)), ">",
                       Literal(10))
    /\ iv_call.sort_expr
          = PhysicalSortExpr(BinaryExpr(Column("la1", 0), "-", Column("la2", 1)),
                             FALSE)
    /\ iv_call.equivalence_properties = {}
    /\ iv_call.ordering_equivalence_properties = {}
    /\ iv_result.sorted_filter_exprs
          = {[filter_expr |->
                  PhysicalSortExpr(
                      BinaryExpr(Column("0", 0), "-", Column("1", 1)), FALSE),
              intermediate_batch_filter_expr |->
                  BinaryExpr(Column("0", 0), "-", Column("1", 1))]}

RcNext ==
    \/ \E n \in 0..MaxCyclesArg : with_max_cycles(n) /\ UNCHANGED <<ej_vars, hm_vars, sw_vars, ix_vars, iv_vars>>
    \/ \E n \in Nodes, closure \in Closures :
          each_cycle(n, closure) /\ UNCHANGED <<ej_vars, hm_vars, sw_vars, ix_vars, iv_vars>>
    \/ RewriteCall /\ UNCHANGED <<ej_vars, hm_vars, sw_vars, ix_vars, iv_vars>>
    \/ FirstCycleReturns /\ UNCHANGED <<ej_vars, hm_vars, sw_vars, ix_vars, iv_vars>>
    \/ LaterCycleReturns /\ UNCHANGED <<ej_vars, hm_vars, sw_vars, ix_vars, iv_vars>>

Init == RcInit /\ EjIdle /\ HmIdle /\ SwIdle /\ IxIdle /\ IvIdle

Next == RcNext

Spec == Init /\ [][Next]_vars

(***************************************************************************)
(* Rewrite cycle: properties.                                              *)
(***************************************************************************)
RcReturnedOk == rc_pc = "returned" /\ rc_result.kind = "Ok"

\* the last n entries of the log all report no change
LastUnchanged(n) ==
    /\ Len(log) >= n
    /\ \A i \in (Len(log) - n + 1)..Len(log) : log[i].out = "no"

\* every rewrite call of the first cycle reported no change
FirstCycleUnchanged ==
    /\ Len(log) >= Len(f)
    /\ \A i \in 1..Len(f) : log[i].out = "no"

\* every invocation of the closure made so far saw a rewrite call report a change
EveryCycleChanged ==
    \A c \in 1..closure_calls :
        \E i \in DOMAIN log : log[i].cycle = c /\ log[i].out = "yes"

\* C1: with max_cycles >= 1, once cycle_length is recorded the loop goes on
\* only while consecutive_unchanged < cycle_length, it has returned as soon
\* as a rewrite call leaves consecutive_unchanged >= cycle_length, a
\* successful return is due to that or to max_cycles completed invocations
\* of the closure, and the closure is never invoked more than max_cycles times.
C1_LoopStops ==
    /\ closure_calls <= max_cycles
    /\ (max_cycles >= 1 /\ cycle_state.cycle_length # None) =>
         LET cu == cycle_state.consecutive_unchanged_count
             cl == cycle_state.cycle_length
         IN  /\ rc_pc = "remaining_cycles" => cu < cl
             /\ cu >= cl => rc_pc = "returned"
             /\ RcReturnedOk =>
                   \/ cu >= cl
                   \/ closure_calls = max_cycles /\ pos > Len(f)

C1_Witness ==
    /\ RcReturnedOk
    /\ max_cycles = 3
    /\ closure_calls = 2
    /\ cycle_state.cycle_length = 2
    /\ Len(log) = 3

\* C2: the info each_cycle returns has completed_cycles() <= max_cycles and
\* total_iterations = completed_cycles * cycle_length + remainder with
\* 0 <= remainder < cycle_length, for every max_cycles, zero included.
C2_InfoArithmetic ==
    RcReturnedOk =>
        LET info == rc_result.info
            cc == completed_cycles(info)
        IN  /\ ~cc.panic
            /\ cc.value <= max_cycles
            /\ \E remainder \in 0..(info.cycle_length - 1) :
                  info.total_iterations = cc.value * info.cycle_length + remainder

\* C3: the fixpoint is detected per rewrite call: the loop has returned as
\* soon as the last cycle_length calls all reported no change, also in the
\* middle of a cycle; on 6 + (4 * (2 + (3 * 5))) with the add and the mul
\* rewriter, max_cycles = 4 gives 74 after 7 calls and 3 completed cycles,
\* and max_cycles = 2 gives 6 + 68 after 4 calls and 2 completed cycles.
C3_PerCallFixpoint ==
    /\ (cycle_state.cycle_length # None /\ LastUnchanged(cycle_state.cycle_length))
          => rc_pc = "returned"
    /\ (RcReturnedOk /\ input_node = ConstExpr /\ f = <<"Add", "Mul">>) =>
          /\ max_cycles = 4 =>
                /\ rc_result.node = lit(74)
                /\ total_iterations(rc_result.info) = 7
                /\ completed_cycles(rc_result.info) = [panic |-> FALSE, value |-> 3]
          /\ max_cycles = 2 =>
                /\ rc_result.node = binary_expr(lit(6), "+", lit(68))
                /\ total_iterations(rc_result.info) = 4
                /\ completed_cycles(rc_result.info) = [panic |-> FALSE, value |-> 2]

C3_Witness ==
    /\ RcReturnedOk
    /\ input_node = ConstExpr
    /\ f = <<"Add", "Mul">>
    /\ max_cycles = 4
    /\ pos = 1
    /\ closure_calls = 4

\* C4: if all k >= 1 rewrite calls of the first cycle report no change, no
\* further call is made and, for every max_cycles >= 1, each_cycle returns
\* the input node with completed_cycles = 1 and total_iterations = k after
\* exactly one invocation of the closure.
C4_IdentityCycle ==
    (max_cycles >= 1 /\ Len(f) >= 1 /\ rc_pc # "new" /\ rc_pc # "built"
        /\ FirstCycleUnchanged) =>
        /\ Len(log) = Len(f)
        /\ closure_calls = 1
        /\ rc_pc = "returned" =>
              /\ rc_result.kind = "Ok"
              /\ rc_result.node = input_node
              /\ completed_cycles(rc_result.info) = [panic |-> FALSE, value |-> 1]
              /\ total_iterations(rc_result.info) = Len(f)

C4_Witness ==
    /\ RcReturnedOk
    /\ max_cycles = 4
    /\ Len(f) = 2
    /\ FirstCycleUnchanged

\* C5: if in every cycle that ran a rewrite call reported a change, all
\* max_cycles cycles run: completed_cycles = max_cycles and
\* total_iterations = max_cycles * cycle_length.
C5_AlwaysTransforms ==
    (RcReturnedOk /\ max_cycles >= 1 /\ EveryCycleChanged) =>
        /\ closure_calls = max_cycles
        /\ rc_result.info.cycle_length = Len(f)
        /\ completed_cycles(rc_result.info) = [panic |-> FALSE, value |-> max_cycles]
        /\ total_iterations(rc_result.info) = max_cycles * rc_result.info.cycle_length

C5_Witness ==
    /\ RcReturnedOk
    /\ max_cycles = 4
    /\ f = <<"Identity", "AlwaysTransformed">>
    /\ EveryCycleChanged
    /\ total_iterations(rc_result.info) = 8

\* C6: RewriteCycle::new() has max_cycles = 3; with max_cycles = 0 each_cycle
\* returns Ok with the input node, without invoking the closure or a
\* rewriter, and reports total_iterations = 0.
C6_DefaultAndZero ==
    /\ rc_pc = "new" => max_cycles = 3
    /\ (max_cycles = 0 /\ rc_pc # "built") =>
          /\ rc_pc = "returned"
          /\ rc_result.kind = "Ok"
          /\ rc_result.node = input_node
          /\ closure_calls = 0
          /\ log = <<>>
          /\ total_iterations(rc_result.info) = 0

C6_Witness ==
    /\ rc_pc = "returned"
    /\ max_cycles = 0
    /\ input_node = ConstExpr
    /\ Len(f) = 2

\* C7: when a rewrite call returns an error, in the first cycle or later,
\* it is the last rewrite call and each_cycle has returned the error.
C7_ErrorShortCircuits ==
    \A i \in DOMAIN log :
        log[i].out = "err" =>
            /\ i = Len(log)
            /\ rc_pc = "returned"
            /\ rc_result.kind = "Err"

C7_Witness ==
    /\ rc_pc = "returned"
    /\ Len(log) = 4
    /\ log[4].out = "err"
    /\ log[4].cycle = 2
    /\ log[1].out = "yes"

\* C8: cycle_length is unset during the first cycle, where no rewrite call
\* ends the loop unless it fails; it is set to rewrite_count when the first
\* invocation of the closure returns, and never changes afterwards; once set,
\* is_done holds exactly when consecutive_unchanged >= cycle_length.
C8_CycleLengthSetOnce ==
    /\ [](rc_pc = "first_cycle" =>
            cycle_state.cycle_length = None /\ ~is_done(cycle_state))
    /\ [](cycle_state.cycle_length # None =>
            (is_done(cycle_state) <=>
                cycle_state.consecutive_unchanged_count >= cycle_state.cycle_length))
    /\ [][/\ (rc_pc = "first_cycle" /\ pos <= Len(f) /\ rc_pc' = "returned")
                => rc_result'.kind = "Err"
          /\ (rc_pc = "first_cycle" /\ pos > Len(f))
                => cycle_state'.cycle_length = cycle_state.rewrite_count
          /\ (cycle_state.cycle_length = None /\ cycle_state'.cycle_length # None)
                => rc_pc = "first_cycle" /\ pos > Len(f)
          /\ cycle_state.cycle_length # None
                => cycle_state'.cycle_length = cycle_state.cycle_length]_vars

C8_Witness ==
    /\ rc_pc = "remaining_cycles"
    /\ cycle_state.cycle_length = 2
    /\ cycle_state.rewrite_count = 3
    /\ log[1].out = "no"
    /\ log[2].out = "yes"

====
